---- MODULE Spec2Model ----
(***************************************************************************)
(* A model of kaey/ctxlog: the chain of field sets a context carries, the  *)
(* resolution of one record per Print call (printer.go), the encoding with *)
(* its substitute record, and the mutex around the write to the sink.      *)
(***************************************************************************)
EXTENDS Integers, Sequences, FiniteSets, TLC

(***************************************************************************)
(* Bounds of the model.                                                    *)
(***************************************************************************)
\* contexts derived with With
MaxNodes == 2
\* Print calls made in all in the concurrent specification
MaxCalls == 3
\* Print calls made in all in the sequential specification
MaxSeqCalls == 1
\* threads of the concurrent specification
NumThreads == 2
\* pieces in which the sink takes the bytes of one Write
Parts == 2

(***************************************************************************)
(* Go values a Field can hold (val any).                                   *)
(***************************************************************************)
\* a string
Str(s) == [kind |-> "string", s |-> s]

\* an error: its message and the errors it wraps, outermost first; a layer
\* that implements Stacker carries the pcs its Stack() returns
ErrV(msg, layers) == [kind |-> "error", msg |-> msg, layers |-> layers]
Plain == [stacker |-> FALSE, pcs |-> <<>>]
Stk(pcs) == [stacker |-> TRUE, pcs |-> pcs]

\* a time.Time: the instant (year, sec, ns) and the zone it is shown in
TimeV(year, sec, ns, off) ==
    [kind |-> "time", year |-> year, sec |-> sec, ns |-> ns, off |-> off]

\* a channel, which encoding/json cannot represent
ChanV == [kind |-> "chan"]

\* a pointer to a value of the named struct type; id tells pointers apart
Ptr(type, id) == [kind |-> "ptr", type |-> type, id |-> id]

\* the nil interface value, as in Error(nil)
NilV == [kind |-> "nil"]

\* a []string, as stack returns
Strings(elems) == [kind |-> "strings", elems |-> elems]

(***************************************************************************)
(* Field constructors.                                                     *)
(***************************************************************************)
Value(k, v) == [key |-> k, val |-> v]
Error(err) == [key |-> "error", val |-> err]
Time(t) == [key |-> "time", val |-> t]
Hidden(v) == [key |-> "", val |-> v]

(***************************************************************************)
(* The scratch map m of print (map[string]any).                            *)
(***************************************************************************)
EmptyMap == [k \in {} |-> NilV]
Has(m, k) == k \in DOMAIN m
Put(m, k, v) == [x \in DOMAIN m \cup {k} |-> IF x = k THEN v ELSE m[x]]

\* t.UTC(): the same instant, shown in UTC
UTC(t) == [t EXCEPT !.off = 0]

\* t.Format(time.RFC3339): a string, to the second
FormatRFC3339(t) ==
    [kind |-> "string", rfc3339 |-> [year |-> t.year, sec |-> t.sec, off |-> t.off]]

\* errors.As(err, &st): the outermost error of the chain that implements
\* Stacker, 0 when there is none or err is nil
ErrorsAs(err) ==
    IF err.kind # "error" THEN 0
    ELSE LET found == {i \in 1..Len(err.layers) : err.layers[i].stacker}
         IN IF found = {} THEN 0
            ELSE CHOOSE i \in found : \A j \in found : i <= j

\* fmt.Sprintf("%s:%d[%s]", ...) of the frame of pc; pc 0 is the zero Frame
FrameString(pc) == [kind |-> "string", frame |-> pc]

\* stack(v): one string per frame; the loop appends before it tests more, so
\* an empty pc slice yields the zero Frame's string
stack(pcs) ==
    Strings(IF pcs = <<>> THEN <<FrameString(0)>>
            ELSE [i \in 1..Len(pcs) |-> FrameString(pcs[i])])

\* handleField without the test for the empty key
handleFieldNoSkip(m, f) ==
    IF Has(m, f.key) THEN m
    ELSE IF f.key = "error" THEN
        LET ok == f.val.kind = "error"
            m1 == IF ok THEN Put(m, "error", Str(f.val.msg)) ELSE m
            i  == IF ok THEN ErrorsAs(f.val) ELSE 0
        IN IF i # 0 THEN Put(m1, "error_stack", stack(f.val.layers[i].pcs))
           ELSE m1
    ELSE IF f.key = "time" THEN
        IF f.val.kind = "time" THEN Put(m, "time", UTC(f.val)) ELSE m
    ELSE Put(m, f.key, f.val)

\* handleField with the time stored as given, in its own zone
handleFieldNoUTC(m, f) ==
    IF f.key = "" THEN m
    ELSE IF Has(m, f.key) THEN m
    ELSE IF f.key = "error" THEN
        LET ok == f.val.kind = "error"
            m1 == IF ok THEN Put(m, "error", Str(f.val.msg)) ELSE m
            i  == IF ok THEN ErrorsAs(f.val) ELSE 0
        IN IF i # 0 THEN Put(m1, "error_stack", stack(f.val.layers[i].pcs))
           ELSE m1
    ELSE IF f.key = "time" THEN
        IF f.val.kind = "time" THEN Put(m, "time", f.val) ELSE m
    ELSE Put(m, f.key, f.val)

\* the body of the loop of handleFields, for one field
handleField(m, f) ==
    IF f.key = "" THEN m
    ELSE IF Has(m, f.key) THEN m
    ELSE IF f.key = "error" THEN
        LET ok == f.val.kind = "error"
            m1 == IF ok THEN Put(m, "error", Str(f.val.msg)) ELSE m
            i  == IF ok THEN ErrorsAs(f.val) ELSE 0
        IN IF i # 0 THEN Put(m1, "error_stack", stack(f.val.layers[i].pcs))
           ELSE m1
    ELSE IF f.key = "time" THEN
        IF f.val.kind = "time" THEN Put(m, "time", UTC(f.val)) ELSE m
    ELSE Put(m, f.key, f.val)

\* handleFields that ranges over the fields from the last to the first
RECURSIVE handleFieldsLast(_, _)
handleFieldsLast(m, fs) ==
    IF fs = <<>> THEN m
    ELSE handleFieldsLast(handleField(m, fs[Len(fs)]), SubSeq(fs, 1, Len(fs) - 1))

RECURSIVE handleFields(_, _)
handleFields(m, fs) ==
    IF fs = <<>> THEN m
    ELSE handleFields(handleField(m, Head(fs)), Tail(fs))

\* for d := cd; d != nil; d = d.prev { handleFields(d.fields) }
RECURSIVE walk(_, _, _)
walk(m, ns, d) ==
    IF d = 0 THEN m
    ELSE walk(handleFields(m, ns[d].fields), ns, ns[d].prev)

\* time.Now() when the clock reads c: local time, not yet UTC
Now(c) == TimeV(2026, c, 1, 3)

\* m["time"].(time.Time) succeeds
HasTime(m) == Has(m, "time") /\ m["time"].kind = "time"

\* resolve with the logger's fields handled before the chain
resolveBaseFirst(m, fields, ns, cd, lfields, msg, c) ==
    LET m1 == walk(handleFields(handleFields(m, lfields), fields), ns, cd)
        m2 == Put(m1, "msg", Str(msg))
    IN IF HasTime(m2) THEN m2 ELSE Put(m2, "time", UTC(Now(c)))

\* resolve without the logger's fields
resolveNoBase(m, fields, ns, cd, lfields, msg, c) ==
    LET m1 == walk(handleFields(m, fields), ns, cd)
        m2 == Put(m1, "msg", Str(msg))
    IN IF HasTime(m2) THEN m2 ELSE Put(m2, "time", UTC(Now(c)))

\* resolve with msg set only when no field has set it
resolveMsgIfAbsent(m, fields, ns, cd, lfields, msg, c) ==
    LET m1 == handleFields(walk(handleFields(m, fields), ns, cd), lfields)
        m2 == IF Has(m1, "msg") THEN m1 ELSE Put(m1, "msg", Str(msg))
    IN IF HasTime(m2) THEN m2 ELSE Put(m2, "time", UTC(Now(c)))

\* lines 61-69 of print: the call-site fields, the chain from cd, the logger's
\* fields, then msg and the time
resolve(m, fields, ns, cd, lfields, msg, c) ==
    LET m1 == handleFields(walk(handleFields(m, fields), ns, cd), lfields)
        m2 == Put(m1, "msg", Str(msg))
    IN IF HasTime(m2) THEN m2 ELSE Put(m2, "time", UTC(Now(c)))

(***************************************************************************)
(* encoding/json, as json.NewEncoder(buf).Encode uses it.                  *)
(***************************************************************************)
\* the error Encode returns for a value, NoErr when the value encodes
NoErr == "none"
ErrUnsupportedChan == "json: unsupported type: chan struct {}"
ErrTimeYear == "json: error calling MarshalJSON for type time.Time: Time.MarshalJSON: year outside of range [0,9999]"
jsonErr(v) ==
    IF v.kind = "chan" THEN ErrUnsupportedChan
    ELSE IF v.kind = "time" /\ v.year \notin 0..9999 THEN ErrTimeYear
    ELSE NoErr

\* time.Time's MarshalJSON: the RFC3339Nano text
FormatRFC3339Nano(t) ==
    [kind |-> "string",
     rfc3339nano |-> [year |-> t.year, sec |-> t.sec, ns |-> t.ns, off |-> t.off]]

\* the JSON text of an encodable value
jsonOf(v) ==
    IF v.kind = "string" THEN [j |-> "string", text |-> v]
    ELSE IF v.kind = "time" THEN [j |-> "string", text |-> FormatRFC3339Nano(v)]
    ELSE IF v.kind = "strings"
        THEN [j |-> "array",
              elems |-> [i \in 1..Len(v.elems) |-> [j |-> "string", text |-> v.elems[i]]]]
    ELSE IF v.kind = "error" THEN [j |-> "object"]
    ELSE IF v.kind = "ptr" THEN [j |-> "object", of |-> v]
    ELSE [j |-> "null"]

\* the keys of the model, in the order encoding/json sorts a map's keys
KeyOrder ==
    <<"", "chan", "error", "error-stack", "error_stack", "foo", "level", "msg", "orig-msg",
      "orig_msg", "svc", "time">>

\* Encode(m): the line written to buf, or the error of the first value, in
\* key order, that does not encode (nothing is written to buf then)
Encode(m) ==
    LET bad == {i \in 1..Len(KeyOrder) :
                    Has(m, KeyOrder[i]) /\ jsonErr(m[KeyOrder[i]]) # NoErr}
    IN IF bad = {}
       THEN [ok |-> TRUE, line |-> [k \in DOMAIN m |-> jsonOf(m[k])]]
       ELSE LET i == CHOOSE i \in bad : \A j \in bad : i <= j
            IN [ok |-> FALSE, err |-> jsonErr(m[KeyOrder[i]])]

MsgEncodeError == "ctxlog: json encode error"

\* encErr with the key orig-msg of earlier revisions
encErrOldKey(m, err, msg) ==
    [k \in {"time", "error", "msg", "orig-msg"} |->
        IF k = "time" THEN FormatRFC3339(m["time"])
        ELSE IF k = "error" THEN Str(err)
        ELSE IF k = "msg" THEN Str(MsgEncodeError)
        ELSE Str(msg)]

\* the substitute record encErr (map[string]string) of lines 78-84
encErr(m, err, msg) ==
    [k \in {"time", "error", "msg", "orig_msg"} |->
        IF k = "time" THEN FormatRFC3339(m["time"])
        ELSE IF k = "error" THEN Str(err)
        ELSE IF k = "msg" THEN Str(MsgEncodeError)
        ELSE Str(msg)]

(***************************************************************************)
(* The state: the contexts (ctxdata nodes), one logger and its sink, the   *)
(* two pools, and the threads that call With and Print.                    *)
(***************************************************************************)
VARIABLES
    nodes,     \* the ctxdata nodes made by With: [prev, fields]; context 0 has none
    lfields,   \* l.fields, the logger's base fields
    pc,        \* where each thread is in Print
    call,      \* the arguments of the thread's Print call: cd, fields, msg
    m,         \* the scratch map the thread holds
    buf,       \* the bytes.Buffer the thread holds: the lines encoded into it
    mapPool,   \* the maps put back into mapPool
    bufPool,   \* the buffers put back into bufPool
    mu,        \* l.mu: 0 when free, else the thread holding it
    woff,      \* pieces of the thread's Write the sink has taken
    sink,      \* l.w: the pieces it has taken, in order
    writes,    \* the Write calls made on l.w, in order: the call, its resolved
               \* record, the bytes handed over, whether the sink failed
    clock,     \* the instant time.Now() returns next
    ncalls,    \* Print calls of each thread that have returned
    debug,     \* l.debug, the logger's global debug flag
    stackField, \* l.stackField, the key the stack of an error is recorded
               \* under (the option ErrorStack); empty when not set
    hist       \* the calls that returned what they were asked at once, in
               \* order: the operation, its arguments and what it returned

vars == <<nodes, lfields, pc, call, m, buf, mapPool, bufPool, mu, woff, sink,
          writes, clock, ncalls, debug, stackField, hist>>

Threads == 1..NumThreads

NoCall == [cd |-> 0, fields |-> <<>>, msg |-> "", now |-> 0, sub |-> FALSE]

\* New(w, fields...) and no call in progress
InitWith(bases) ==
    /\ nodes = <<>>
    /\ lfields \in bases
    /\ pc = [t \in Threads |-> "idle"]
    /\ call = [t \in Threads |-> NoCall]
    /\ m = [t \in Threads |-> EmptyMap]
    /\ buf = [t \in Threads |-> <<>>]
    /\ mapPool = <<>>
    /\ bufPool = <<>>
    /\ mu = 0
    /\ woff = [t \in Threads |-> 0]
    /\ sink = <<>>
    /\ writes = <<>>
    /\ clock = 1
    /\ ncalls = [t \in Threads |-> 0]
    /\ hist = <<>>

\* a sequence without its i-th element
Without(s, i) == SubSeq(s, 1, i - 1) \o SubSeq(s, i + 1, Len(s))

\* the Print calls made so far, returned or not
RECURSIVE SumTo(_, _)
SumTo(f, n) == IF n = 0 THEN 0 ELSE f[n] + SumTo(f, n - 1)
Started == SumTo(ncalls, NumThreads) + Cardinality({t \in Threads : pc[t] # "idle"})

\* no thread has panicked or called os.Exit: either ends the process
Alive == \A t \in Threads : pc[t] \notin {"panic", "exit"}

\* With that adds the fields to the node of ctx instead of making a new node
WithInPlace(t, ctx, fields) ==
    /\ Alive
    /\ pc[t] = "idle"
    /\ ctx \in 0..Len(nodes)
    /\ Len(nodes) < MaxNodes
    /\ nodes' = IF Len(fields) = 0 THEN nodes
                ELSE IF ctx = 0 THEN Append(nodes, [prev |-> ctx, fields |-> fields])
                ELSE [nodes EXCEPT ![ctx].fields = fields \o @]
    /\ UNCHANGED <<lfields, stackField, pc, call, m, buf, mapPool, bufPool, mu, woff, sink,
                   writes, clock, ncalls,
                   debug, hist>>

\* With(ctx, fields...): a new node in front of ctx's chain, or ctx itself
\* when no field is given
With(t, ctx, fields) ==
    /\ Alive
    /\ pc[t] = "idle"
    /\ ctx \in 0..Len(nodes)
    /\ Len(nodes) < MaxNodes
    /\ nodes' = IF Len(fields) = 0 THEN nodes
                ELSE Append(nodes, [prev |-> ctx, fields |-> fields])
    /\ UNCHANGED <<lfields, stackField, pc, call, m, buf, mapPool, bufPool, mu, woff, sink,
                   writes, clock, ncalls,
                   debug, hist>>

\* (*Log).Print on a non-nil logger up to mapPool.Get(): sync.Pool hands out
\* one of the maps put back (g) or a new one (g = 0)
PrintBegin(t, ctx, msg, fields, max) ==
    /\ Alive
    /\ pc[t] = "idle"
    /\ Started < max
    /\ ctx \in 0..Len(nodes)
    /\ call' = [call EXCEPT ![t] = [cd |-> ctx, fields |-> fields, msg |-> msg,
                                    now |-> 0, sub |-> FALSE]]
    /\ \E g \in 0..Len(mapPool) :
          /\ m' = [m EXCEPT ![t] = IF g = 0 THEN EmptyMap ELSE mapPool[g]]
          /\ mapPool' = IF g = 0 THEN mapPool ELSE Without(mapPool, g)
    /\ pc' = [pc EXCEPT ![t] = "resolve"]
    /\ UNCHANGED <<nodes, lfields, stackField, buf, bufPool, mu, woff, sink, writes, clock,
                   ncalls,
                   debug, hist>>

\* Resolve that takes the mutex before it walks the chain
ResolveLocked(t) ==
    /\ Alive
    /\ pc[t] = "resolve"
    /\ mu = 0
    /\ mu' = t
    /\ LET c == call[t]
           m1 == handleFields(walk(handleFields(m[t], c.fields), nodes, c.cd), lfields)
           read == ~HasTime(Put(m1, "msg", Str(c.msg)))
       IN /\ m' = [m EXCEPT ![t] =
                     resolve(m[t], c.fields, nodes, c.cd, lfields, c.msg, clock)]
          /\ clock' = IF read THEN clock + 1 ELSE clock
          /\ call' = [call EXCEPT ![t].now = IF read THEN clock ELSE 0]
    /\ pc' = [pc EXCEPT ![t] = "encode"]
    /\ UNCHANGED <<nodes, lfields, stackField, buf, mapPool, bufPool, woff, sink, writes,
                   ncalls, debug, hist>>

\* lines 61-69: the walk over the chain and the base fields, msg and time;
\* the clock moves when time.Now() is read
Resolve(t) ==
    /\ Alive
    /\ pc[t] = "resolve"
    /\ LET c == call[t]
           m1 == handleFields(walk(handleFields(m[t], c.fields), nodes, c.cd), lfields)
           read == ~HasTime(Put(m1, "msg", Str(c.msg)))
       IN /\ m' = [m EXCEPT ![t] =
                     resolve(m[t], c.fields, nodes, c.cd, lfields, c.msg, clock)]
          /\ clock' = IF read THEN clock + 1 ELSE clock
          /\ call' = [call EXCEPT ![t].now = IF read THEN clock ELSE 0]
    /\ pc' = [pc EXCEPT ![t] = "encode"]
    /\ UNCHANGED <<nodes, lfields, stackField, buf, mapPool, bufPool, mu, woff, sink, writes,
                   ncalls,
                   debug, hist>>

\* PutBack without buf.Reset()
PutBackNoReset(t) ==
    /\ bufPool' = Append(bufPool, buf[t])
    /\ mapPool' = Append(mapPool, EmptyMap)
    /\ buf' = [buf EXCEPT ![t] = <<>>]
    /\ m' = [m EXCEPT ![t] = EmptyMap]

\* PutBack without clear(m)
PutBackNoClear(t) ==
    /\ bufPool' = Append(bufPool, <<>>)
    /\ mapPool' = Append(mapPool, m[t])
    /\ buf' = [buf EXCEPT ![t] = <<>>]
    /\ m' = [m EXCEPT ![t] = EmptyMap]

\* the deferred functions of print: buf.Reset(), bufPool.Put(buf), clear(m),
\* mapPool.Put(m)
PutBack(t) ==
    /\ bufPool' = Append(bufPool, <<>>)
    /\ mapPool' = Append(mapPool, EmptyMap)
    /\ buf' = [buf EXCEPT ![t] = <<>>]
    /\ m' = [m EXCEPT ![t] = EmptyMap]

\* EncodeStep that panics as soon as Encode(m) fails, with no substitute
EncodeStepAbort(t) ==
    /\ Alive
    /\ pc[t] = "encode"
    /\ \E g \in 0..Len(bufPool) :
          LET b == IF g = 0 THEN <<>> ELSE bufPool[g]
              pool == IF g = 0 THEN bufPool ELSE Without(bufPool, g)
              e == Encode(m[t])
          IN IF e.ok
             THEN /\ buf' = [buf EXCEPT ![t] = Append(b, e.line)]
                  /\ bufPool' = pool
                  /\ pc' = [pc EXCEPT ![t] = "lock"]
                  /\ UNCHANGED <<m, mapPool, call>>
             ELSE /\ bufPool' = Append(pool, <<>>)
                  /\ mapPool' = Append(mapPool, EmptyMap)
                  /\ buf' = [buf EXCEPT ![t] = <<>>]
                  /\ m' = [m EXCEPT ![t] = EmptyMap]
                  /\ pc' = [pc EXCEPT ![t] = "panic"]
                  /\ UNCHANGED call
    /\ UNCHANGED <<nodes, lfields, stackField, mu, woff, sink, writes, clock, ncalls,
                   debug, hist>>

\* lines 71-89: bufPool.Get(), Encode(m) and, when that fails, the substitute
\* record; a failing substitute (or a time that is no time.Time) panics, and the
\* deferred functions run on the way out
EncodeStep(t) ==
    /\ Alive
    /\ pc[t] = "encode"
    /\ \E g \in 0..Len(bufPool) :
          LET b == IF g = 0 THEN <<>> ELSE bufPool[g]
              pool == IF g = 0 THEN bufPool ELSE Without(bufPool, g)
              e == Encode(m[t])
              s == Encode(encErr(m[t], e.err, call[t].msg))
          IN IF e.ok
             THEN /\ buf' = [buf EXCEPT ![t] = Append(b, e.line)]
                  /\ bufPool' = pool
                  /\ pc' = [pc EXCEPT ![t] = "lock"]
                  /\ UNCHANGED <<m, mapPool, call>>
             ELSE IF HasTime(m[t]) /\ s.ok
             THEN /\ buf' = [buf EXCEPT ![t] = <<s.line>>]
                  /\ bufPool' = pool
                  /\ pc' = [pc EXCEPT ![t] = "lock"]
                  /\ call' = [call EXCEPT ![t].sub = TRUE]
                  /\ UNCHANGED <<m, mapPool>>
             ELSE /\ bufPool' = Append(pool, <<>>)
                  /\ mapPool' = Append(mapPool, EmptyMap)
                  /\ buf' = [buf EXCEPT ![t] = <<>>]
                  /\ m' = [m EXCEPT ![t] = EmptyMap]
                  /\ pc' = [pc EXCEPT ![t] = "panic"]
                  /\ UNCHANGED call
    /\ UNCHANGED <<nodes, lfields, stackField, mu, woff, sink, writes, clock, ncalls,
                   debug, hist>>

\* the pieces of the bytes in a buffer: every line, in Parts pieces
NumPieces(b) == Len(b) * Parts
Piece(b, id, i) ==
    [id |-> id, line |-> b[((i - 1) \div Parts) + 1], part |-> ((i - 1) % Parts) + 1]

\* what buf.WriteTo leaves in the buffer once the sink's Write has returned
\* having taken k pieces: b.off moves past them, and the buffer is Reset when
\* nothing is left; a line taken in part stays as its rest
Rest(b, k) ==
    IF k = 0 THEN b
    ELSE IF k >= NumPieces(b) THEN <<>>
    ELSE LET full == k \div Parts
             r == k % Parts
         IN IF r = 0 THEN SubSeq(b, full + 1, Len(b))
            ELSE <<[rest |-> b[full + 1], from |-> r + 1]>> \o SubSeq(b, full + 2, Len(b))

\* Lock that does not wait for the mutex
LockNoWait(t) ==
    /\ Alive
    /\ pc[t] = "lock"
    /\ mu' = t
    /\ woff' = [woff EXCEPT ![t] = 0]
    /\ writes' = IF buf[t] = <<>> THEN writes
                 ELSE Append(writes, [id |-> <<t, ncalls[t] + 1>>, call |-> call[t],
                                      m |-> m[t], data |-> buf[t], err |-> FALSE])
    /\ pc' = [pc EXCEPT ![t] = IF buf[t] = <<>> THEN "unlock" ELSE "write"]
    /\ UNCHANGED <<nodes, lfields, stackField, call, m, buf, mapPool, bufPool, sink, clock,
                   ncalls,
                   debug, hist>>

\* l.mu.Lock() and the call buf.WriteTo(l.w) makes: one Write of all the
\* bytes of buf (none when buf is empty)
Lock(t) ==
    /\ Alive
    /\ pc[t] = "lock"
    /\ mu = 0
    /\ mu' = t
    /\ woff' = [woff EXCEPT ![t] = 0]
    /\ writes' = IF buf[t] = <<>> THEN writes
                 ELSE Append(writes, [id |-> <<t, ncalls[t] + 1>>, call |-> call[t],
                                      m |-> m[t], data |-> buf[t], err |-> FALSE])
    /\ pc' = [pc EXCEPT ![t] = IF buf[t] = <<>> THEN "unlock" ELSE "write"]
    /\ UNCHANGED <<nodes, lfields, stackField, call, m, buf, mapPool, bufPool, sink, clock,
                   ncalls,
                   debug, hist>>

\* the sink takes the next piece of the bytes it was handed; with the last
\* piece its Write returns and WriteTo empties the buffer
SinkTake(t) ==
    /\ Alive
    /\ pc[t] = "write"
    /\ woff[t] < NumPieces(buf[t])
    /\ sink' = Append(sink, Piece(buf[t], <<t, ncalls[t] + 1>>, woff[t] + 1))
    /\ woff' = [woff EXCEPT ![t] = woff[t] + 1]
    /\ pc' = [pc EXCEPT ![t] =
                IF woff[t] + 1 = NumPieces(buf[t]) THEN "unlock" ELSE "write"]
    /\ buf' = IF woff[t] + 1 = NumPieces(buf[t])
              THEN [buf EXCEPT ![t] = Rest(buf[t], woff[t] + 1)] ELSE buf
    /\ UNCHANGED <<nodes, lfields, stackField, call, m, mapPool, bufPool, mu, writes,
                   clock, ncalls,
                   debug, hist>>

\* SinkError after which print returns without l.mu.Unlock()
SinkErrorNoUnlock(t) ==
    /\ Alive
    /\ pc[t] = "write"
    /\ pc' = [pc EXCEPT ![t] = "return"]
    /\ writes' = [i \in DOMAIN writes |->
                    IF writes[i].id = <<t, ncalls[t] + 1>>
                    THEN [writes[i] EXCEPT !.err = TRUE] ELSE writes[i]]
    /\ buf' = [buf EXCEPT ![t] = Rest(buf[t], woff[t])]
    /\ UNCHANGED <<nodes, lfields, stackField, call, m, mapPool, bufPool, mu, woff, sink,
                   clock, ncalls, debug, hist>>

\* the sink's Write returns an error, having taken woff pieces; WriteTo moves
\* past them and returns the error, which print drops
SinkError(t) ==
    /\ Alive
    /\ pc[t] = "write"
    /\ pc' = [pc EXCEPT ![t] = "unlock"]
    /\ writes' = [i \in DOMAIN writes |->
                    IF writes[i].id = <<t, ncalls[t] + 1>>
                    THEN [writes[i] EXCEPT !.err = TRUE] ELSE writes[i]]
    /\ buf' = [buf EXCEPT ![t] = Rest(buf[t], woff[t])]
    /\ UNCHANGED <<nodes, lfields, stackField, call, m, mapPool, bufPool, mu, woff, sink,
                   clock, ncalls,
                   debug, hist>>

\* l.mu.Unlock()
Unlock(t) ==
    /\ Alive
    /\ pc[t] = "unlock"
    /\ mu' = 0
    /\ pc' = [pc EXCEPT ![t] = "return"]
    /\ UNCHANGED <<nodes, lfields, stackField, call, m, buf, mapPool, bufPool, woff, sink,
                   writes, clock, ncalls,
                   debug, hist>>

\* the deferred functions run and Print returns
Return(t) ==
    /\ Alive
    /\ pc[t] = "return"
    /\ PutBack(t)
    /\ ncalls' = [ncalls EXCEPT ![t] = ncalls[t] + 1]
    /\ pc' = [pc EXCEPT ![t] = "idle"]
    /\ UNCHANGED <<nodes, lfields, stackField, call, mu, woff, sink, writes, clock,
                   debug, hist>>

(***************************************************************************)
(* The inputs the calls are made with.                                     *)
(***************************************************************************)
T2000 == TimeV(2000, 0, 0, 0)
TZone == TimeV(2000, 5, 7, 2)
T10000 == TimeV(10000, 0, 0, 0)
ErrPlain == ErrV("broken pipe", <<Plain>>)
ErrStack == ErrV("bar error", <<Plain, Stk(<<7, 8>>)>>)
ErrNoFrames == ErrV("no frames", <<Stk(<<>>)>>)

FooBar == Value("foo", Str("bar"))
FooBaz == Value("foo", Str("baz"))
FooQux == Value("foo", Str("qux"))

\* the field lists With and Print are called with in Spec
FieldLists ==
    { <<>>,
      <<FooBaz, FooQux>>,
      <<Value("msg", Str("leak")), Value("msg", Str("leak again")),
        Value("", Str("hidden")), Time(TZone)>>,
      <<Error(ErrPlain)>>,
      <<Value("error_stack", Str("mine")), Error(ErrStack)>>,
      <<Error(ErrNoFrames), FooQux>>,
      <<Value("error", Str("raw")), Value("time", Str("noon"))>>,
      <<Value("chan", ChanV)>>,
      <<Time(T10000)>> }

\* the base fields the logger is made with in Spec
BaseLists ==
    { <<>>,
      <<FooBar, Time(T2000)>>,
      <<Value("msg", Str("base leak")), Error(NilV), Error(ErrPlain),
        Value("", Str("hidden"))>> }

Msgs == {"hello", "bye"}

\* the inputs of the concurrent specification
ConcFieldLists == { <<>>, <<Value("chan", ChanV)>> }
ConcBaseLists == { <<FooBar, Time(T2000)>> }

(***************************************************************************)
(* Spec: one thread, every input.  SpecConc: NumThreads threads.           *)
(***************************************************************************)
Init == InitWith(BaseLists) /\ debug = FALSE /\ stackField = ""

Next ==
    \/ \E ctx \in 0..MaxNodes, fields \in FieldLists : With(1, ctx, fields)
    \/ \E ctx \in 0..MaxNodes, msg \in Msgs, fields \in FieldLists :
          PrintBegin(1, ctx, msg, fields, MaxSeqCalls)
    \/ Resolve(1)
    \/ EncodeStep(1)
    \/ Lock(1)
    \/ SinkTake(1)
    \/ Unlock(1)
    \/ Return(1)

Spec == Init /\ [][Next]_vars

InitConc == InitWith(ConcBaseLists) /\ debug = FALSE /\ stackField = ""

NextConc ==
    \E t \in Threads :
        \/ \E fields \in ConcFieldLists : PrintBegin(t, 0, "hello", fields, MaxCalls)
        \/ Resolve(t)
        \/ EncodeStep(t)
        \/ Lock(t)
        \/ SinkTake(t)
        \/ SinkError(t)
        \/ Unlock(t)
        \/ Return(t)

SpecConc == InitConc /\ [][NextConc]_vars

(***************************************************************************)
(* What the claims speak of: the scopes a Print call sees, leaf to root.   *)
(***************************************************************************)
\* the nodes of the chain from context cd, leaf first
RECURSIVE ChainOf(_)
ChainOf(cd) == IF cd = 0 THEN <<>> ELSE <<cd>> \o ChainOf(nodes[cd].prev)

\* the field lists of the chain's nodes, leaf first
ChainScopes(c) == [i \in 1..Len(ChainOf(c.cd)) |-> nodes[ChainOf(c.cd)[i]].fields]

\* every field list the call sees: the call site, the chain, the base fields
Scopes(c) == <<c.fields>> \o ChainScopes(c) \o <<lfields>>

KeysOf(fs) == {fs[j].key : j \in DOMAIN fs}
ValuesOf(fs, k) == {fs[j].val : j \in {x \in DOMAIN fs : fs[x].key = k}}
FirstOf(fs, k) == fs[CHOOSE j \in DOMAIN fs : fs[j].key = k /\ \A x \in 1..(j - 1) : fs[x].key # k].val

\* the scopes that attach key k, and the one of them closest to the leaf
ScopesWith(sc, k) == {i \in DOMAIN sc : k \in KeysOf(sc[i])}
LeafMost(sc, k) == CHOOSE i \in ScopesWith(sc, k) : \A j \in ScopesWith(sc, k) : i <= j

AllKeys == {KeyOrder[i] : i \in DOMAIN KeyOrder}
Reserved == {"", "msg", "time", "error", "error_stack"}

\* the one line a Write carries, and the JSON string of a Go string
LineOf(w) == w.data[1]
JString(s) == [j |-> "string", text |-> s]

(***************************************************************************)
(* C1: a key other than msg, time and error that two or more nodes of the  *)
(* chain attach has, in the record printed through the innermost context,  *)
(* a value the node closest to the leaf gives it.                          *)
(***************************************************************************)
C1_LeafWinsAcrossScopes ==
    \A i \in DOMAIN writes :
        LET w == writes[i]
            sc == ChainScopes(w.call)
        IN \A k \in AllKeys \ {"", "msg", "time", "error"} :
              (Cardinality(ScopesWith(sc, k)) >= 2 /\ k \notin KeysOf(w.call.fields))
              => /\ Has(w.m, k)
                 /\ w.m[k] \in ValuesOf(sc[LeafMost(sc, k)], k)

(***************************************************************************)
(* C2 as stated: for every key of the fields passed to Print, the record   *)
(* carries the value those fields give it.                                 *)
(***************************************************************************)
C2_CallSiteWinsEveryKey ==
    \A i \in DOMAIN writes :
        LET w == writes[i]
        IN \A k \in KeysOf(w.call.fields) \ {""} :
              Has(w.m, k) /\ w.m[k] \in ValuesOf(w.call.fields, k)

(***************************************************************************)
(* C2 amended: for every key of the fields passed to Print other than the  *)
(* empty key, msg, time, error and error_stack, the record carries the     *)
(* value of the first of those fields with that key, whatever the chain and *)
(* the base fields hold, and so does the line written when it encodes.     *)
(***************************************************************************)
C2_CallSiteWins ==
    \A i \in DOMAIN writes :
        LET w == writes[i]
        IN \A k \in KeysOf(w.call.fields) \ Reserved :
              /\ Has(w.m, k)
              /\ w.m[k] = FirstOf(w.call.fields, k)
              /\ ~w.call.sub => LineOf(w)[k] = JString(FirstOf(w.call.fields, k))

\* a record was written whose call-site field overrides the chain and the base
C2_Witness ==
    \E i \in DOMAIN writes :
        LET w == writes[i]
        IN /\ Len(ChainScopes(w.call)) = 2
           /\ \A j \in 1..3 : "foo" \in KeysOf(Scopes(w.call)[j + 1])
           /\ "foo" \in KeysOf(w.call.fields)
           /\ FirstOf(w.call.fields, "foo") # FirstOf(lfields, "foo")
           /\ ~w.call.sub

(***************************************************************************)
(* C3 as stated, first part: for every base-field key that neither the     *)
(* chain nor the call site sets, the record carries the base value.        *)
(***************************************************************************)
C3_BaseValueEveryKey ==
    \A i \in DOMAIN writes :
        LET w == writes[i]
            leaf == <<w.call.fields>> \o ChainScopes(w.call)
        IN \A k \in KeysOf(lfields) \ {""} :
              ScopesWith(leaf, k) = {}
              => Has(w.m, k) /\ w.m[k] \in ValuesOf(lfields, k)

(***************************************************************************)
(* C3 amended: for every base-field key other than the empty key, msg,     *)
(* time, error and error_stack, the record carries the first base value of *)
(* the key when neither the chain nor the call site sets it, and the value *)
(* of the leaf-most of them that sets it otherwise; with a context without *)
(* chain, the record's keys are keys of the base fields or of the call     *)
(* site, msg, time, or error_stack beside an error.                        *)
(***************************************************************************)
C3_BaseIsRoot ==
    \A i \in DOMAIN writes :
        LET w == writes[i]
            leaf == <<w.call.fields>> \o ChainScopes(w.call)
        IN /\ \A k \in KeysOf(lfields) \ Reserved :
                /\ Has(w.m, k)
                /\ w.m[k] = IF ScopesWith(leaf, k) = {} THEN FirstOf(lfields, k)
                            ELSE FirstOf(leaf[LeafMost(leaf, k)], k)
           /\ w.call.cd = 0
              => DOMAIN w.m \subseteq
                    KeysOf(lfields) \cup KeysOf(w.call.fields) \cup {"msg", "time"}
                    \cup (IF Has(w.m, "error") THEN {"error_stack"} ELSE {})

\* a record was written, through a chain, that takes foo from the base fields
C3_Witness ==
    \E i \in DOMAIN writes :
        LET w == writes[i]
            leaf == <<w.call.fields>> \o ChainScopes(w.call)
        IN /\ w.call.cd # 0
           /\ "foo" \in KeysOf(lfields)
           /\ ScopesWith(leaf, "foo") = {}
           /\ w.m["foo"] = Str("bar")

(***************************************************************************)
(* C4: the record print resolves has the message argument of the call as   *)
(* its msg, and so has the line written from it; no field with key msg, at *)
(* the call site, in the chain or in the base fields, determines it.       *)
(***************************************************************************)
C4_MsgIsArgument ==
    \A i \in DOMAIN writes :
        LET w == writes[i]
        IN /\ Has(w.m, "msg")
           /\ w.m["msg"] = Str(w.call.msg)
           /\ ~w.call.sub => LineOf(w)["msg"] = JString(Str(w.call.msg))
           /\ w.call.sub => LineOf(w)["msg"] = JString(Str("ctxlog: json encode error"))

\* a record was written for a call that saw a field with key msg
C4_Witness ==
    \E i \in DOMAIN writes :
        LET w == writes[i]
        IN /\ "msg" \in KeysOf(w.call.fields)
           /\ ScopesWith(ChainScopes(w.call), "msg") # {}
           /\ "msg" \in KeysOf(lfields)
           /\ ~w.call.sub

\* every field the call sees, in the order of the walk
RECURSIVE Flatten(_)
Flatten(sc) == IF sc = <<>> THEN <<>> ELSE Head(sc) \o Flatten(Tail(sc))
Flat(c) == Flatten(Scopes(c))
MinOf(S) == CHOOSE i \in S : \A j \in S : i <= j

\* the fields that hold a timestamp under key time
TimeFields(fl) == {j \in DOMAIN fl : fl[j].key = "time" /\ fl[j].val.kind = "time"}

(***************************************************************************)
(* C5: when a field with key time holds a timestamp, the record's time is  *)
(* the leaf-most such timestamp in UTC and the clock is not read; when     *)
(* none does, it is the UTC instant the clock gave during the call; and    *)
(* every line written has its one time entry, derived from it.             *)
(***************************************************************************)
C5_TimeResolution ==
    \A i \in DOMAIN writes :
        LET w == writes[i]
            fl == Flat(w.call)
            tm == w.m["time"]
        IN /\ Has(w.m, "time")
           /\ TimeFields(fl) # {}
              => LET T == fl[MinOf(TimeFields(fl))].val
                 IN /\ tm = [kind |-> "time", year |-> T.year, sec |-> T.sec,
                             ns |-> T.ns, off |-> 0]
                    /\ w.call.now = 0
           /\ TimeFields(fl) = {}
              => /\ w.call.now \in 1..(clock - 1)
                 /\ tm = [kind |-> "time", year |-> 2026, sec |-> w.call.now,
                          ns |-> 1, off |-> 0]
           /\ ~w.call.sub
              => LineOf(w)["time"] =
                    JString([kind |-> "string",
                             rfc3339nano |-> [year |-> tm.year, sec |-> tm.sec,
                                              ns |-> tm.ns, off |-> 0]])
           /\ w.call.sub
              => LineOf(w)["time"] =
                    JString([kind |-> "string",
                             rfc3339 |-> [year |-> tm.year, sec |-> tm.sec, off |-> 0]])

\* a record was written whose time is a timestamp attached in another zone,
\* found behind a field with key time that holds no timestamp
C5_Witness ==
    \E i \in DOMAIN writes :
        LET w == writes[i]
            fl == Flat(w.call)
            tk == {j \in DOMAIN fl : fl[j].key = "time"}
        IN /\ TimeFields(fl) # {}
           /\ MinOf(tk) < MinOf(TimeFields(fl))
           /\ fl[MinOf(TimeFields(fl))].val.off # 0
           /\ Cardinality(TimeFields(fl)) >= 2

\* the fields of a list whose key is not error
NoErrorFields(fs) == SelectSeq(fs, LAMBDA f : f.key # "error")

(***************************************************************************)
(* C6: when the leaf-most field with key error holds an error E, the       *)
(* record's error entry is the string E.Error() and every other field the  *)
(* walk resolves is what it is without the error fields.                   *)
(***************************************************************************)
C6_ErrorReduction ==
    \A i \in DOMAIN writes :
        LET w == writes[i]
            fl == Flat(w.call)
            ek == {j \in DOMAIN fl : fl[j].key = "error"}
            m0 == resolve(EmptyMap, NoErrorFields(w.call.fields),
                          [n \in DOMAIN nodes |->
                              [nodes[n] EXCEPT !.fields = NoErrorFields(@)]],
                          w.call.cd, NoErrorFields(lfields), w.call.msg, w.call.now)
        IN (ek # {} /\ fl[MinOf(ek)].val.kind = "error")
           => /\ Has(w.m, "error")
              /\ w.m["error"] = Str(fl[MinOf(ek)].val.msg)
              /\ \A k \in DOMAIN m0 : Has(w.m, k) /\ w.m[k] = m0[k]

\* the resolved record of a write fails to encode
Unencodable(v) == v.kind = "chan" \/ (v.kind = "time" /\ ~(v.year \in 0..9999))
EncodeFails(w) == \E k \in DOMAIN w.m : Unencodable(w.m[k])

(***************************************************************************)
(* C7: when the resolved record fails to encode, the bytes handed to the   *)
(* sink are one line, the substitute record, whose keys are time, error,   *)
(* msg and orig_msg: msg the sentinel, orig_msg the message argument,      *)
(* error the encoder's description of the failure, time the RFC 3339 text  *)
(* of the time resolved for the record.                                    *)
(***************************************************************************)
C7_EncodeFallback ==
    \A i \in DOMAIN writes :
        LET w == writes[i]
            fl == Flat(w.call)
            tm == IF TimeFields(fl) # {}
                  THEN fl[MinOf(TimeFields(fl))].val
                  ELSE [year |-> 2026, sec |-> w.call.now]
        IN /\ w.call.sub <=> EncodeFails(w)
           /\ EncodeFails(w)
              => /\ Len(w.data) = 1
                 /\ DOMAIN LineOf(w) = {"time", "error", "msg", "orig_msg"}
                 /\ LineOf(w)["msg"] = JString(Str("ctxlog: json encode error"))
                 /\ LineOf(w)["orig_msg"] = JString(Str(w.call.msg))
                 /\ LineOf(w)["error"] =
                       JString(Str(IF \E k \in DOMAIN w.m : w.m[k].kind = "chan"
                                   THEN "json: unsupported type: chan struct {}"
                                   ELSE "json: error calling MarshalJSON for type time.Time: Time.MarshalJSON: year outside of range [0,9999]"))
                 /\ LineOf(w)["time"] =
                       JString([kind |-> "string",
                                rfc3339 |-> [year |-> tm.year, sec |-> tm.sec, off |-> 0]])

\* a substitute record was written for a call with an attached time and
\* other attached fields
C7_Witness ==
    \E i \in DOMAIN writes :
        LET w == writes[i]
        IN /\ EncodeFails(w)
           /\ w.call.sub
           /\ TimeFields(Flat(w.call)) # {}
           /\ w.m["time"].sec = 5
           /\ Has(w.m, "foo")
           /\ w.call.msg = "bye"

\* the Write calls made for the n-th Print call of thread t
WritesOf(t, n) == {i \in DOMAIN writes : writes[i].id = <<t, n>>}

\* the n-th Print call of thread t is past its write step
PastWrite(t, n) == n <= ncalls[t] \/ (n = ncalls[t] + 1 /\ pc[t] \in {"unlock", "return"})

(***************************************************************************)
(* C8: no Print call panics; a call that is past its write step, and so    *)
(* every call that has returned, has made exactly one Write on the sink,   *)
(* carrying one line: the encoding of its record or the substitute record; *)
(* a call not yet at its write step has made none.                         *)
(***************************************************************************)
C8_ExactlyOneRecord ==
    /\ \A t \in Threads : pc[t] # "panic"
    /\ \A t \in Threads : \A n \in 1..(ncalls[t] + 1) :
          IF PastWrite(t, n) \/ (n = ncalls[t] + 1 /\ pc[t] = "write")
          THEN /\ Cardinality(WritesOf(t, n)) = 1
               /\ \A i \in WritesOf(t, n) :
                     /\ Len(writes[i].data) = 1
                     /\ DOMAIN LineOf(writes[i]) =
                           IF EncodeFails(writes[i])
                           THEN {"time", "error", "msg", "orig_msg"}
                           ELSE DOMAIN writes[i].m
          ELSE WritesOf(t, n) = {}

\* one thread has returned from two Print calls, one of which wrote the
\* substitute record and one its own record
C8_Witness ==
    \E t \in Threads :
        /\ ncalls[t] >= 2
        /\ \E i \in WritesOf(t, 1) : writes[i].call.sub
        /\ \E i \in WritesOf(t, 2) : ~writes[i].call.sub

(***************************************************************************)
(* C9: at most one call is in the write step at a time, every call hands   *)
(* its bytes to the sink in one Write, and the pieces the sink has taken   *)
(* of one record lie together and in order: a record is whole unless its   *)
(* Write is still going on or the sink failed it.                          *)
(***************************************************************************)
C9_AtomicWrites ==
    /\ Cardinality({t \in Threads : pc[t] = "write"}) <= 1
    /\ \A i, j \in DOMAIN writes : writes[i].id = writes[j].id => i = j
    /\ \A i \in DOMAIN sink :
          /\ sink[i].part = 1
             \/ (i > 1 /\ sink[i - 1].id = sink[i].id /\ sink[i - 1].part = sink[i].part - 1)
          /\ sink[i].part < Parts
             => \/ (i < Len(sink) /\ sink[i + 1].id = sink[i].id)
                \/ (i = Len(sink) /\ pc[sink[i].id[1]] = "write"
                      /\ sink[i].id[2] = ncalls[sink[i].id[1]] + 1)
                \/ \E x \in DOMAIN writes : writes[x].id = sink[i].id /\ writes[x].err

\* a thread waits for the mutex while another is in the middle of its Write,
\* after a whole record of an earlier call
C9_Witness ==
    \E t1, t2 \in Threads :
        /\ t1 # t2
        /\ pc[t1] = "write" /\ woff[t1] >= 1
        /\ pc[t2] = "lock"
        /\ Len(sink) > Parts

(***************************************************************************)
(* SpecOrder: the threads of SpecConc, each naming its calls in its        *)
(* messages, so that a record in the sink tells which call it is of.       *)
(***************************************************************************)
\* Print calls made in all in SpecOrder
MaxOrderCalls == 3

\* the message of the n-th Print call of thread t
CallMsg(t, n) == "call " \o ToString(t) \o "." \o ToString(n)

NextOrder ==
    \E t \in Threads :
        \/ \E fields \in ConcFieldLists :
              PrintBegin(t, 0, CallMsg(t, ncalls[t] + 1), fields, MaxOrderCalls)
        \/ Resolve(t)
        \/ EncodeStep(t)
        \/ Lock(t)
        \/ SinkTake(t)
        \/ SinkError(t)
        \/ Unlock(t)
        \/ Return(t)

SpecOrder == InitConc /\ [][NextOrder]_vars

\* the message a line, or what is left of a line, was encoded from: the
\* orig_msg of a substitute record, the msg of any other
RECURSIVE LineMsg(_)
LineMsg(x) ==
    IF "rest" \in DOMAIN x THEN LineMsg(x.rest)
    ELSE IF "orig_msg" \in DOMAIN x THEN x["orig_msg"].text.s
    ELSE x["msg"].text.s

\* the call a line is the record of, read from the line: <<thread, number>>
RecordCall(x) ==
    CHOOSE c \in Threads \X (1..MaxOrderCalls) : CallMsg(c[1], c[2]) = LineMsg(x)

\* the places in the sink of the pieces of the record of a call
PiecesOf(c) == {i \in DOMAIN sink : RecordCall(sink[i].line) = c}

(***************************************************************************)
(* C10: the records of one thread are in the sink in the order of its      *)
(* calls: no piece of the record of a call lies behind a piece of the      *)
(* record of a later call of the same thread, no Write carries the record  *)
(* of another call than the one that makes it, and the record of a call    *)
(* that has returned is in the sink whole unless the sink failed its       *)
(* Write.  Records are told apart by what they say, not by who wrote them. *)
(***************************************************************************)
C10_CallOrder ==
    /\ \A i, j \in DOMAIN sink :
          (i < j /\ RecordCall(sink[i].line)[1] = RecordCall(sink[j].line)[1])
             => RecordCall(sink[i].line)[2] <= RecordCall(sink[j].line)[2]
    /\ \A i \in DOMAIN writes : \A k \in DOMAIN writes[i].data :
          LineMsg(writes[i].data[k]) = writes[i].call.msg
    /\ \A t \in Threads : \A n \in 1..ncalls[t] :
          \E i \in DOMAIN writes :
             /\ writes[i].call.msg = CallMsg(t, n)
             /\ \/ writes[i].err
                \/ {sink[j].part : j \in PiecesOf(<<t, n>>)} = 1..Parts

\* the sink holds the whole record of a thread's first call, then a piece
\* of a record of the other thread, then the record of the first thread's
\* second call, which wrote the substitute record
C10_Witness ==
    \E i, j, k \in DOMAIN sink :
        /\ i < j /\ j < k
        /\ RecordCall(sink[i].line) = <<1, 1>> /\ sink[i].part = Parts
        /\ RecordCall(sink[j].line)[1] = 2
        /\ RecordCall(sink[k].line) = <<1, 2>>
        /\ "orig_msg" \in DOMAIN sink[k].line

(***************************************************************************)
(* SpecSib: NumThreads threads derive contexts with With and print through *)
(* them, in any interleaving.                                              *)
(***************************************************************************)
\* Print calls made in all in SpecSib
MaxSibCalls == 3

\* the field lists of With in SpecSib
SibFieldLists == { <<FooBaz>>, <<Error(ErrStack)>> }

InitSib == InitWith(ConcBaseLists) /\ debug = FALSE /\ stackField = ""

NextSib ==
    \E t \in Threads :
        \/ \E ctx \in 0..MaxNodes, fields \in SibFieldLists : With(t, ctx, fields)
        \/ \E ctx \in 0..MaxNodes : PrintBegin(t, ctx, "hello", <<>>, MaxSibCalls)
        \/ Resolve(t)
        \/ EncodeStep(t)
        \/ Lock(t)
        \/ SinkTake(t)
        \/ Unlock(t)
        \/ Return(t)

SpecSib == InitSib /\ [][NextSib]_vars

\* the record of a write holds only what the call's own scopes attach: every
\* key but msg, time and error_stack is a key of the call site, of the chain
\* of the call's context or of the base fields, with the leaf-most value of
\* those, and error_stack comes with an error or a field of theirs
OwnFieldsOnly(w) ==
    LET own == Scopes(w.call)
    IN /\ \A k \in DOMAIN w.m \ {"msg", "time", "error_stack"} :
             /\ ScopesWith(own, k) # {}
             /\ k # "error" => w.m[k] = FirstOf(own[LeafMost(own, k)], k)
       /\ Has(w.m, "error_stack")
          => ScopesWith(own, "error") # {} \/ ScopesWith(own, "error_stack") # {}
       /\ \A n \in DOMAIN nodes : \A k \in KeysOf(nodes[n].fields) :
             (ScopesWith(own, k) = {} /\ k \notin {"msg", "time", "error_stack"})
             => ~Has(w.m, k)

\* a step leaves every node there is as it is
NodesKept ==
    /\ Len(nodes') >= Len(nodes)
    /\ \A n \in DOMAIN nodes : nodes'[n] = nodes[n]

(***************************************************************************)
(* C11: whatever the order and the interleaving in which contexts are      *)
(* derived from a parent, a record printed through a context holds no      *)
(* field attached only to a sibling or a child of it, and With leaves       *)
(* every existing node of every chain unchanged.                           *)
(***************************************************************************)
C11_SiblingIsolation ==
    /\ [](\A i \in DOMAIN writes : OwnFieldsOnly(writes[i]))
    /\ [][NodesKept]_vars

\* two contexts were derived from one parent with different fields, and a
\* record was written through each of them and through the parent
C11_Witness ==
    \E a, b \in DOMAIN nodes :
        /\ a # b
        /\ nodes[a].prev = nodes[b].prev
        /\ nodes[a].fields = <<FooBaz>>
        /\ nodes[b].fields = <<Error(ErrStack)>>
        /\ \E i \in DOMAIN writes : writes[i].call.cd = a
        /\ \E i \in DOMAIN writes : writes[i].call.cd = b
        /\ \E i \in DOMAIN writes : writes[i].call.cd = nodes[a].prev

\* the fields of a list whose key is not empty
NoEmptyKey(fs) == SelectSeq(fs, LAMBDA f : f.key # "")

(***************************************************************************)
(* C15: no resolved record and no line written has an entry with the empty *)
(* key, and the record is the one resolved from the same call site, chain  *)
(* and base fields with their empty-key fields taken out.                  *)
(***************************************************************************)
C15_EmptyKeySkipped ==
    \A i \in DOMAIN writes :
        LET w == writes[i]
            m0 == resolve(EmptyMap, NoEmptyKey(w.call.fields),
                          [n \in DOMAIN nodes |->
                              [nodes[n] EXCEPT !.fields = NoEmptyKey(@)]],
                          w.call.cd, NoEmptyKey(lfields), w.call.msg, w.call.now)
        IN /\ ~Has(w.m, "")
           /\ "" \notin DOMAIN LineOf(w)
           /\ w.m = m0

\* a record was written for a call that saw an empty-key field at the call
\* site, in the chain and in the base fields
C15_Witness ==
    \E i \in DOMAIN writes :
        LET w == writes[i]
        IN /\ "" \in KeysOf(w.call.fields)
           /\ ScopesWith(ChainScopes(w.call), "") # {}
           /\ "" \in KeysOf(lfields)
           /\ ~w.call.sub

\* the fields of a list that have key k, and the value a field resolves to
\* when it is inserted
FieldsWith(fs, k) == {j \in DOMAIN fs : fs[j].key = k}
Reduced(k, v) ==
    IF k = "error" /\ v.kind = "error" THEN Str(v.msg)
    ELSE IF k = "time" /\ v.kind = "time" THEN [v EXCEPT !.off = 0]
    ELSE v

(***************************************************************************)
(* C17 as stated: for every key that the leaf-most scope attaching it      *)
(* attaches more than once, the record carries the value of the first of   *)
(* those fields.                                                           *)
(***************************************************************************)
C17_FirstWinsEveryKey ==
    \A i \in DOMAIN writes :
        LET w == writes[i]
            sc == Scopes(w.call)
        IN \A k \in AllKeys \ {""} :
              (ScopesWith(sc, k) # {}
                 /\ Cardinality(FieldsWith(sc[LeafMost(sc, k)], k)) >= 2)
              => /\ Has(w.m, k)
                 /\ w.m[k] = Reduced(k, FirstOf(sc[LeafMost(sc, k)], k))

(***************************************************************************)
(* C17 amended: for every key other than the empty key, msg, time, error   *)
(* and error_stack that the leaf-most scope attaching it attaches more     *)
(* than once, the record carries the value of the first of those fields    *)
(* and none of the later ones, and so does the line written from it.       *)
(***************************************************************************)
C17_FirstWinsInNode ==
    \A i \in DOMAIN writes :
        LET w == writes[i]
            sc == Scopes(w.call)
        IN \A k \in AllKeys \ Reserved :
              (ScopesWith(sc, k) # {}
                 /\ Cardinality(FieldsWith(sc[LeafMost(sc, k)], k)) >= 2)
              => /\ Has(w.m, k)
                 /\ w.m[k] = FirstOf(sc[LeafMost(sc, k)], k)
                 /\ ~w.call.sub
                    => LineOf(w)[k] = JString(FirstOf(sc[LeafMost(sc, k)], k))

\* a record was written through a context whose leaf-most node attaches foo
\* twice, with different values, over a base that attaches foo too
C17_Witness ==
    \E i \in DOMAIN writes :
        LET w == writes[i]
            sc == Scopes(w.call)
        IN /\ w.call.cd # 0
           /\ "foo" \notin KeysOf(w.call.fields)
           /\ ScopesWith(sc, "foo") # {}
           /\ LeafMost(sc, "foo") = 2
           /\ Cardinality(ValuesOf(sc[2], "foo")) >= 2
           /\ "foo" \in KeysOf(lfields)
           /\ w.m["foo"] = Str("baz")

\* the fields of the walk with key error, and those of them holding an error
ErrorKeyFields(fl) == {j \in DOMAIN fl : fl[j].key = "error"}
ErrorFields(fl) == {j \in DOMAIN fl : fl[j].key = "error" /\ fl[j].val.kind = "error"}

(***************************************************************************)
(* C18: when the leaf-most field with key error holds a value that is not  *)
(* an error, the record maps error to that value as it was attached.       *)
(***************************************************************************)
C18_RawErrorInsertion ==
    \A i \in DOMAIN writes :
        LET w == writes[i]
            fl == Flat(w.call)
        IN (ErrorKeyFields(fl) # {} /\ fl[MinOf(ErrorKeyFields(fl))].val.kind # "error")
           => /\ Has(w.m, "error")
              /\ w.m["error"] = fl[MinOf(ErrorKeyFields(fl))].val

(***************************************************************************)
(* C19: when the error the record resolves implements Stacker, the record  *)
(* has under error_stack one rendered entry for each pc of a non-empty     *)
(* Stack(), in order, and no error_stack at all when Stack() is empty;     *)
(* when it does not implement Stacker, the record has an error_stack only  *)
(* if a field attaches one.                                                *)
(***************************************************************************)
C19_StackReduction ==
    \A i \in DOMAIN writes :
        LET w == writes[i]
            fl == Flat(w.call)
        IN ErrorFields(fl) # {}
           => LET e == fl[MinOf(ErrorFields(fl))].val
                  st == {x \in DOMAIN e.layers : e.layers[x].stacker}
                  pcs == e.layers[MinOf(st)].pcs
              IN /\ (st # {} /\ pcs # <<>>)
                    => /\ Has(w.m, "error_stack")
                       /\ w.m["error_stack"].kind = "strings"
                       /\ Len(w.m["error_stack"].elems) = Len(pcs)
                       /\ \A x \in DOMAIN pcs :
                             w.m["error_stack"].elems[x] = [kind |-> "string", frame |-> pcs[x]]
                 /\ (st # {} /\ pcs = <<>>) => ~Has(w.m, "error_stack")
                 /\ st = {}
                    => (Has(w.m, "error_stack")
                          => \E j \in DOMAIN fl : fl[j].key = "error_stack")

\* the record after the first n fields of the walk have been handled
Walked(fl, n) == handleFields(EmptyMap, SubSeq(fl, 1, n))

(***************************************************************************)
(* C20: in the walk of one resolution, a key other than msg and time that  *)
(* has been inserted keeps its value as every later field is handled; a    *)
(* field attached under error_stack is not replaced by the stack of an     *)
(* error handled after it.                                                 *)
(***************************************************************************)
C20_NoReplacement ==
    \A i \in DOMAIN writes :
        LET w == writes[i]
            fl == Flat(w.call)
        IN /\ \A n \in 1..(Len(fl) - 1) :
                 \A k \in DOMAIN Walked(fl, n) \ {"msg", "time"} :
                    Walked(fl, n + 1)[k] = Walked(fl, n)[k]
           /\ \A k \in DOMAIN Walked(fl, Len(fl)) \ {"msg", "time"} :
                 w.m[k] = Walked(fl, Len(fl))[k]

(***************************************************************************)
(* Calls on a nil *Log, beside the calls on the logger.                    *)
(***************************************************************************)
\* calls recorded in hist
MaxHist == 3

\* the *Log a method is called on: nil, or the logger of the model
NilLog == "nil"
TheLog == "log"

\* two more loggers: the process-wide one of the package-level functions,
\* New(os.Stdout), and a second one made with base fields of its own
PkgLog == "pkg"
OtherLog == "other"
OtherFields == <<Value("svc", Str("other"))>>

\* l.fields of a logger
LogFields(l) ==
    IF l = TheLog THEN lfields ELSE IF l = OtherLog THEN OtherFields ELSE <<>>

\* a []byte handed to Write: its text between white space, and its length
Bytes(text, len) == [text |-> text, len |-> len]
\* string(bytes.TrimSpace(p))
TrimSpace(p) == p.text

\* (*Log).Print: a nil logger returns at once, any other goes on to print
LogPrint(t, l, ctx, msg, fields, max) ==
    IF l = NilLog
    THEN /\ Alive
         /\ pc[t] = "idle"
         /\ ctx \in 0..Len(nodes)
         /\ Len(hist) < MaxHist
         /\ hist' = Append(hist, [op |-> "Print", l |-> l, ctx |-> ctx])
         /\ UNCHANGED <<nodes, lfields, stackField, pc, call, m, buf, mapPool, bufPool, mu,
                        woff, sink, writes, clock, ncalls, debug>>
    ELSE PrintBegin(t, ctx, msg, fields, max)

\* Write on the writer l.Writer(ctx) returns: w.l.Print(w.ctx, ...) with the
\* trimmed text, then len(p) and a nil error
Write(t, l, ctx, p, max) ==
    IF l = NilLog
    THEN /\ Alive
         /\ pc[t] = "idle"
         /\ ctx \in 0..Len(nodes)
         /\ Len(hist) < MaxHist
         /\ hist' = Append(hist, [op |-> "Write", l |-> l, ctx |-> ctx,
                                  n |-> p.len, err |-> "nil"])
         /\ UNCHANGED <<nodes, lfields, stackField, pc, call, m, buf, mapPool, bufPool, mu,
                        woff, sink, writes, clock, ncalls, debug>>
    ELSE PrintBegin(t, ctx, TrimSpace(p), <<>>, max)

\* the nodes l.newCtxData(ctx, fields) makes in front of ctx's chain: a
\* context without ctxdata gets a node with the logger's fields behind it
newCtxData(ns, ctx, lf, fields) ==
    IF ctx = 0
    THEN <<[prev |-> 0, fields |-> lf], [prev |-> Len(ns) + 1, fields |-> fields]>>
    ELSE <<[prev |-> ctx, fields |-> fields]>>

\* the method With without the test for a nil logger
WithMethodNoNil(t, l, ctx, fields) ==
    /\ Alive
    /\ pc[t] = "idle"
    /\ ctx \in 0..Len(nodes)
    /\ Len(hist) < MaxHist
    /\ IF Len(fields) = 0
       THEN /\ nodes' = nodes
            /\ hist' = Append(hist, [op |-> "With", l |-> l, ctx |-> ctx, ret |-> ctx])
       ELSE /\ Len(nodes) + Len(newCtxData(nodes, ctx, LogFields(l), fields)) <= MaxNodes
            /\ nodes' = nodes \o newCtxData(nodes, ctx, LogFields(l), fields)
            /\ hist' = Append(hist, [op |-> "With", l |-> l, ctx |-> ctx,
                                     ret |-> Len(nodes')])
    /\ UNCHANGED <<lfields, stackField, pc, call, m, buf, mapPool, bufPool, mu, woff, sink,
                   writes, clock, ncalls, debug>>

\* (*Log).With of the revisions where With is a method: ctx itself for a nil
\* logger or no fields, else a context with the new node
WithMethod(t, l, ctx, fields) ==
    /\ Alive
    /\ pc[t] = "idle"
    /\ ctx \in 0..Len(nodes)
    /\ Len(hist) < MaxHist
    /\ IF l = NilLog \/ Len(fields) = 0
       THEN /\ nodes' = nodes
            /\ hist' = Append(hist, [op |-> "With", l |-> l, ctx |-> ctx, ret |-> ctx])
       ELSE /\ Len(nodes) + Len(newCtxData(nodes, ctx, LogFields(l), fields)) <= MaxNodes
            /\ nodes' = nodes \o newCtxData(nodes, ctx, LogFields(l), fields)
            /\ hist' = Append(hist, [op |-> "With", l |-> l, ctx |-> ctx,
                                     ret |-> Len(nodes')])
    /\ UNCHANGED <<lfields, stackField, pc, call, m, buf, mapPool, bufPool, mu, woff, sink,
                   writes, clock, ncalls, debug>>

\* what is written through a Writer in SpecNil
NilWrites == { Bytes("hello", 6) }

InitNil == InitWith(ConcBaseLists) /\ debug = FALSE /\ stackField = ""

NextNil ==
    \/ \E ctx \in 0..MaxNodes, fields \in SibFieldLists : With(1, ctx, fields)
    \/ \E l \in {NilLog, TheLog}, ctx \in 0..MaxNodes, fields \in ConcFieldLists :
          LogPrint(1, l, ctx, "bye", fields, MaxSeqCalls)
    \/ \E l \in {NilLog, TheLog}, ctx \in 0..MaxNodes, p \in NilWrites :
          Write(1, l, ctx, p, MaxSeqCalls)
    \/ \E ctx \in 0..MaxNodes, fields \in SibFieldLists : WithMethod(1, NilLog, ctx, fields)
    \/ Resolve(1)
    \/ EncodeStep(1)
    \/ Lock(1)
    \/ SinkTake(1)
    \/ Unlock(1)
    \/ Return(1)

SpecNil == InitNil /\ [][NextNil]_vars

\* the step is the return of a call on a nil *Log
NilReturn == Len(hist') = Len(hist) + 1 /\ hist'[Len(hist')].l = NilLog

(***************************************************************************)
(* C12: a call of Print, of Write on the writer of Writer(ctx), or of the  *)
(* method With on a nil *Log returns without a panic and leaves the sink,  *)
(* the Write calls made on it, the contexts and every call in progress as  *)
(* they are; Write returns len(p) and no error, and With returns the       *)
(* context it was given.                                                   *)
(***************************************************************************)
C12_NilLoggerInert ==
    /\ [](\A t \in Threads : pc[t] # "panic")
    /\ [][NilReturn
          => /\ writes' = writes /\ sink' = sink /\ nodes' = nodes
             /\ pc' = pc /\ buf' = buf /\ mu' = mu
             /\ LET e == hist'[Len(hist')]
                IN /\ e.op = "With" => e.ret = e.ctx
                   /\ e.op = "Write" => e.err = "nil"]_vars

\* Print, Write and With have each returned from a call on a nil *Log, made
\* with a derived context, beside a record the logger has written
C12_Witness ==
    /\ \A o \in {"Print", "Write", "With"} :
          \E i \in DOMAIN hist : hist[i].op = o /\ hist[i].l = NilLog /\ hist[i].ctx # 0
    /\ Len(writes) = 1
    /\ Len(sink) = Parts

(***************************************************************************)
(* The leveled calls and the debug flag of the revisions that have them.   *)
(* A context made by WithFields, WithError or WithDebug (part_009) is a    *)
(* node that carries a ctxData: a debug value, a map of fields and an      *)
(* error.  Every logger stores it under the same key, "ctxlog.ctxdata".    *)
(***************************************************************************)
\* ctx.Value(key) for the key under which a debug value is stored: the
\* nearest such node of the chain, 0 when there is none
RECURSIVE ctxValue(_, _)
ctxValue(ns, ctx) ==
    IF ctx = 0 THEN 0
    ELSE IF "debug" \in DOMAIN ns[ctx] THEN ctx
    ELSE ctxValue(ns, ns[ctx].prev)

\* a value as copyFields and setFields store it: an error as its message
ErrorText(v) == IF v.kind = "error" THEN Str(v.msg) ELSE v

\* copyFields(from): a new map with every entry of from, errors as text
copyFields(from) == [k \in DOMAIN from |-> ErrorText(from[k])]

\* setFields(from, to): every entry of from set in to, errors as text
setFields(from, to) ==
    [k \in DOMAIN from \cup DOMAIN to |->
        IF k \in DOMAIN from THEN ErrorText(from[k]) ELSE to[k]]

\* cd.fields[k] = v for every entry of fields, as WithFields does it
Overlay(to, fields) ==
    [k \in DOMAIN fields \cup DOMAIN to |->
        IF k \in DOMAIN fields THEN fields[k] ELSE to[k]]

\* l.getCtxData(ctx): a copy of the ctxData stored in ctx, or one made of
\* the logger's debug flag and fields
getCtxData(ns, ctx, ldebug, lf) ==
    IF ctxValue(ns, ctx) # 0
    THEN [debug  |-> ns[ctxValue(ns, ctx)].debug,
          fields |-> copyFields(ns[ctxValue(ns, ctx)].fields),
          err    |-> ns[ctxValue(ns, ctx)].err]
    ELSE [debug |-> ldebug, fields |-> copyFields(lf), err |-> NilV]

\* stack(err) of stack.go: nil unless err itself is a Stacker
stackOf(err) ==
    IF err.layers[1].stacker THEN stack(err.layers[1].pcs) ELSE NilV

\* the map (*Log).print hands to the printer: the error and its stack when
\* cd.err is set, then msg, level and the time as text
LevelRecord(cd, sf, level, msg, c) ==
    LET f0 == IF cd.err # NilV /\ sf # "" /\ stackOf(cd.err) # NilV
              THEN Put(cd.fields, sf, stackOf(cd.err)) ELSE cd.fields
        f1 == IF cd.err # NilV THEN Put(f0, "error", Str(cd.err.msg)) ELSE f0
    IN Put(Put(Put(f1, "msg", Str(msg)), "level", Str(level)),
           "time", FormatRFC3339Nano(UTC(Now(c))))

\* the second logger of SpecDebug, made by New() without options
SecondLog == "second"

\* l.debug, l.fields and l.stackField of the loggers of SpecDebug
DebugOf(l) == IF l = TheLog THEN debug ELSE FALSE
FieldsOf(l) == IF l = TheLog THEN lfields ELSE EmptyMap
StackFieldOf(l) == IF l = TheLog THEN stackField ELSE ""

\* DefaultPrinter and PrinterFunc are not among the sources of this
\* revision; what the printer does with a record follows the specification
\* (Encode-with-Fallback, Sink Writer Synchronization).
\* The substitute record of a record that does not encode: the time
\* already resolved, the encoder's error, the sentinel and the message
SubstituteRecord(rec, err) ==
    [k \in {"time", "error", "msg", "orig-msg"} |->
        IF k = "time" THEN rec["time"]
        ELSE IF k = "error" THEN Str(err)
        ELSE IF k = "msg" THEN Str(MsgEncodeError)
        ELSE rec["msg"]]

\* the bytes the default printer hands to its output for a record: its
\* encoding, or the encoding of the substitute record
DefaultPrinter(rec) ==
    IF Encode(rec).ok THEN <<Encode(rec).line>>
    ELSE <<Encode(SubstituteRecord(rec, Encode(rec).err)).line>>

\* l.printer(rec): one Write of the bytes on the output, which takes them
PrinterCall(t, l, ctx, level, msg, rec) ==
    LET id == <<t, ncalls[t] + 1>>
        out == DefaultPrinter(rec)
    IN /\ writes' = Append(writes,
                        [id |-> id,
                         call |-> [cd |-> ctx, fields |-> <<>>, msg |-> msg,
                                   now |-> clock, sub |-> ~Encode(rec).ok,
                                   level |-> level, l |-> l],
                         m |-> rec, data |-> out, err |-> FALSE])
       /\ sink' = sink \o [i \in 1..NumPieces(out) |-> Piece(out, id, i)]

\* (*Log).print: the record is made and handed to the printer
LevelPrint(t, l, ctx, cd, level, msg) ==
    /\ PrinterCall(t, l, ctx, level, msg,
                   LevelRecord(cd, StackFieldOf(l), level, msg, clock))
    /\ clock' = clock + 1
    /\ ncalls' = [ncalls EXCEPT ![t] = ncalls[t] + 1]

\* the calls of SpecDebug
MaxDebugCalls == 2

\* (*Log).WithDebug(ctx, v): a copy of ctx's ctxData with debug set to v
WithDebug(t, l, ctx, v) ==
    /\ Alive
    /\ pc[t] = "idle"
    /\ ctx \in 0..Len(nodes)
    /\ Len(nodes) < MaxNodes
    /\ LET cd == getCtxData(nodes, ctx, DebugOf(l), FieldsOf(l))
       IN nodes' = Append(nodes, [prev |-> ctx, by |-> "WithDebug", debug |-> v,
                                  fields |-> cd.fields, err |-> cd.err])
    /\ UNCHANGED <<lfields, stackField, pc, call, m, buf, mapPool, bufPool, mu,
                   woff, sink, writes, clock, ncalls, debug, hist>>

\* (*Log).WithFields(ctx, fields): ctx itself without fields, else a copy of
\* ctx's ctxData with the fields set as they are given
WithFields(t, l, ctx, fields) ==
    /\ Alive
    /\ pc[t] = "idle"
    /\ ctx \in 0..Len(nodes)
    /\ Len(nodes) < MaxNodes
    /\ LET cd == getCtxData(nodes, ctx, DebugOf(l), FieldsOf(l))
       IN nodes' = IF DOMAIN fields = {} THEN nodes
                   ELSE Append(nodes, [prev |-> ctx, by |-> "WithFields",
                                       debug |-> cd.debug,
                                       fields |-> Overlay(cd.fields, fields),
                                       err |-> cd.err])
    /\ UNCHANGED <<lfields, stackField, pc, call, m, buf, mapPool, bufPool, mu,
                   woff, sink, writes, clock, ncalls, debug, hist>>

\* (*Log).WithError(ctx, err): ctx itself for a nil error, else a copy of
\* ctx's ctxData with err set
WithError(t, l, ctx, err) ==
    /\ Alive
    /\ pc[t] = "idle"
    /\ ctx \in 0..Len(nodes)
    /\ Len(nodes) < MaxNodes
    /\ LET cd == getCtxData(nodes, ctx, DebugOf(l), FieldsOf(l))
       IN nodes' = IF err = NilV THEN nodes
                   ELSE Append(nodes, [prev |-> ctx, by |-> "WithError",
                                       debug |-> cd.debug, fields |-> cd.fields,
                                       err |-> err])
    /\ UNCHANGED <<lfields, stackField, pc, call, m, buf, mapPool, bufPool, mu,
                   woff, sink, writes, clock, ncalls, debug, hist>>

\* (*Log).Debug(ctx, msg, fields): returns at once when the ctxData's debug
\* is false
Debug(t, l, ctx, msg, fields) ==
    /\ Alive
    /\ pc[t] = "idle"
    /\ ctx \in 0..Len(nodes)
    /\ Len(hist) < MaxDebugCalls
    /\ hist' = Append(hist, [op |-> "Debug", l |-> l, ctx |-> ctx])
    /\ LET cd == getCtxData(nodes, ctx, DebugOf(l), FieldsOf(l))
       IN IF ~cd.debug
          THEN UNCHANGED <<writes, sink, clock, ncalls>>
          ELSE LevelPrint(t, l, ctx, [cd EXCEPT !.fields = setFields(fields, cd.fields)],
                          "debug", msg)
    /\ UNCHANGED <<nodes, lfields, stackField, pc, call, m, buf, mapPool, bufPool,
                   mu, woff, debug>>

\* (*Log).Info(ctx, msg, fields)
Info(t, l, ctx, msg, fields) ==
    /\ Alive
    /\ pc[t] = "idle"
    /\ ctx \in 0..Len(nodes)
    /\ Len(hist) < MaxDebugCalls
    /\ hist' = Append(hist, [op |-> "Info", l |-> l, ctx |-> ctx])
    /\ LET cd == getCtxData(nodes, ctx, DebugOf(l), FieldsOf(l))
       IN LevelPrint(t, l, ctx, [cd EXCEPT !.fields = setFields(fields, cd.fields)],
                     "info", msg)
    /\ UNCHANGED <<nodes, lfields, stackField, pc, call, m, buf, mapPool, bufPool,
                   mu, woff, debug>>

\* cd as Error and Fatal hand it to print: the call's fields set, and the
\* call's error when it is not nil
WithCallError(cd, err, fields) ==
    [cd EXCEPT !.fields = setFields(fields, cd.fields),
               !.err = IF err # NilV THEN err ELSE cd.err]

\* (*Log).Error(ctx, msg, err, fields)
ErrorCall(t, l, ctx, msg, err, fields) ==
    /\ Alive
    /\ pc[t] = "idle"
    /\ ctx \in 0..Len(nodes)
    /\ Len(hist) < MaxDebugCalls
    /\ hist' = Append(hist, [op |-> "Error", l |-> l, ctx |-> ctx])
    /\ LevelPrint(t, l, ctx,
                  WithCallError(getCtxData(nodes, ctx, DebugOf(l), FieldsOf(l)), err, fields),
                  "error", msg)
    /\ UNCHANGED <<nodes, lfields, stackField, pc, call, m, buf, mapPool, bufPool,
                   mu, woff, debug>>

\* (*Log).Fatal(ctx, msg, err, fields): the record of level fatal, then
\* os.Exit(1)
Fatal(t, l, ctx, msg, err, fields) ==
    /\ Alive
    /\ pc[t] = "idle"
    /\ ctx \in 0..Len(nodes)
    /\ Len(hist) < MaxDebugCalls
    /\ LevelPrint(t, l, ctx,
                  WithCallError(getCtxData(nodes, ctx, DebugOf(l), FieldsOf(l)), err, fields),
                  "fatal", msg)
    /\ pc' = [pc EXCEPT ![t] = "exit"]
    /\ UNCHANGED <<nodes, lfields, stackField, call, m, buf, mapPool, bufPool,
                   mu, woff, debug, hist>>

\* the inputs of SpecDebug: maps of fields, errors
Map1(k, v) == Put(EmptyMap, k, v)
DebugBaseMaps == { Map1("foo", Str("bar")) }
DebugFieldMaps == { Map1("foo", ErrPlain), Map1("chan", ChanV) }
DebugCallMaps == { EmptyMap, Put(Map1("error", Str("raw")), "", Str("x")) }
DebugErrors == { NilV, ErrNoFrames }
DebugCallErrors == { NilV, ErrStack }

\* New(EnableDebug(v), Fields(...)) with or without ErrorStack("error_stack")
InitDebug ==
    /\ InitWith({setFields(f, EmptyMap) : f \in DebugBaseMaps})
    /\ debug \in BOOLEAN
    /\ stackField \in {"", "error_stack"}

NextDebug ==
    \/ \E l \in {TheLog, SecondLog} :
          \/ \E ctx \in 0..MaxNodes, v \in BOOLEAN : WithDebug(1, l, ctx, v)
          \/ \E ctx \in 0..MaxNodes, fields \in DebugFieldMaps : WithFields(1, l, ctx, fields)
          \/ \E ctx \in 0..MaxNodes, fields \in DebugCallMaps :
                Debug(1, l, ctx, "hello", fields)
    \/ \E ctx \in 0..MaxNodes, err \in DebugErrors : WithError(1, TheLog, ctx, err)
    \/ \E ctx \in 0..MaxNodes, fields \in DebugCallMaps : Info(1, TheLog, ctx, "bye", fields)
    \/ \E ctx \in 0..MaxNodes, err \in DebugCallErrors :
          ErrorCall(1, TheLog, ctx, "hello", err, EmptyMap)
    \/ \E ctx \in 0..MaxNodes, err \in DebugCallErrors :
          Fatal(1, TheLog, ctx, "bye", err, EmptyMap)

SpecDebug == InitDebug /\ [][NextDebug]_vars

\* the nodes of ctx's chain that a scope-level override made, leaf first
Overrides(ctx) ==
    SelectSeq(ChainOf(ctx),
              LAMBDA n : "by" \in DOMAIN nodes[n] /\ nodes[n].by \in {"WithDebug", "SetDebug"})

\* the effective debug flag of a context for a logger: the leaf-most
\* override, else the logger's flag
Effective(l, ctx) ==
    IF Overrides(ctx) # <<>> THEN nodes[Overrides(ctx)[1]].debug ELSE DebugOf(l)

\* the step is the return of a leveled call
LevelReturn(op) == Len(hist') = Len(hist) + 1 /\ hist'[Len(hist')].op = op

\* the step hands exactly one record of the level to the printer, and the
\* sink gets the one line written for it
WroteOne(level) ==
    /\ Len(writes') = Len(writes) + 1
    /\ SubSeq(writes', 1, Len(writes)) = writes
    /\ writes'[Len(writes')].m["level"] = Str(level)
    /\ Len(writes'[Len(writes')].data) = 1
    /\ Len(sink') = Len(sink) + Parts
    /\ SubSeq(sink', 1, Len(sink)) = sink

(***************************************************************************)
(* C13: a Debug call writes one record of level debug when the effective   *)
(* flag of its context is true, and leaves the output untouched when it is *)
(* false, the effective flag being the value of the leaf-most override in  *)
(* the context's chain and the flag of the logger that is called when      *)
(* there is none; an Info, Error or Fatal call always writes its record.   *)
(***************************************************************************)
C13_DebugGating ==
    [][/\ LevelReturn("Debug")
          => IF Effective(hist'[Len(hist')].l, hist'[Len(hist')].ctx)
             THEN WroteOne("debug") /\ writes'[Len(writes')].call.cd = hist'[Len(hist')].ctx
             ELSE writes' = writes /\ sink' = sink
       /\ LevelReturn("Info") => WroteOne("info")
       /\ LevelReturn("Error") => WroteOne("error")
       /\ (\E t \in Threads : pc[t] # "exit" /\ pc'[t] = "exit") => WroteOne("fatal")]_vars

(***************************************************************************)
(* The revision whose debug flag is set at run time (log.go, first         *)
(* listing): the flag is an int32 written with atomic stores, a scope      *)
(* override is a bool stored in the context under the logger's debug key,  *)
(* the fields are a map stored under the logger's fields key, and print    *)
(* writes to the output without a mutex.                                   *)
(***************************************************************************)
\* ctx.Value(l.ctxKeyFields): the map of the nearest node AddFields made,
\* and no map when there is none
RECURSIVE ctxFields(_, _)
ctxFields(ns, ctx) ==
    IF ctx = 0 THEN EmptyMap
    ELSE IF ns[ctx].by = "AddFields" THEN ns[ctx].fields
    ELSE ctxFields(ns, ns[ctx].prev)

\* (*Log).AddFields(ctx, newFields): the fields of ctx and the new ones over
\* them, stored as they are given
AddFields(t, ctx, newFields) ==
    /\ Alive
    /\ pc[t] = "idle"
    /\ ctx \in 0..Len(nodes)
    /\ Len(nodes) < MaxNodes
    /\ nodes' = Append(nodes, [prev |-> ctx, by |-> "AddFields",
                               fields |-> Overlay(ctxFields(nodes, ctx), newFields)])
    /\ UNCHANGED <<lfields, stackField, pc, call, m, buf, mapPool, bufPool, mu, woff, sink,
                   writes, clock, ncalls, debug, hist>>

\* (*Log).SetDebug(ctx, v)
SetDebug(t, ctx, v) ==
    /\ Alive
    /\ pc[t] = "idle"
    /\ ctx \in 0..Len(nodes)
    /\ Len(nodes) < MaxNodes
    /\ nodes' = Append(nodes, [prev |-> ctx, by |-> "SetDebug", debug |-> v])
    /\ UNCHANGED <<lfields, stackField, pc, call, m, buf, mapPool, bufPool, mu, woff, sink,
                   writes, clock, ncalls, debug, hist>>

\* the calls of SpecLog
MaxRunCalls == 2

\* the calls of SpecLog begun so far
LogStarted == Len(hist) + Cardinality({u \in Threads : pc[u] # "idle"})

\* (*Log).SetDebugGlobal(v), up to its last store: with v the flag is
\* stored as 1 first; the store of 0 follows in either case
SetDebugGlobal(t, v) ==
    /\ Alive
    /\ pc[t] = "idle"
    /\ LogStarted < MaxRunCalls
    /\ debug' = IF v THEN TRUE ELSE debug
    /\ pc' = [pc EXCEPT ![t] = "store0"]
    /\ call' = [call EXCEPT ![t] = [v |-> v]]
    /\ UNCHANGED <<nodes, lfields, stackField, m, buf, mapPool, bufPool, mu, woff, sink,
                   writes, clock, ncalls, hist>>

\* the last statement of SetDebugGlobal, atomic.StoreInt32(l.debug, 0), and
\* its return
StoreZero(t) ==
    /\ Alive
    /\ pc[t] = "store0"
    /\ debug' = FALSE
    /\ pc' = [pc EXCEPT ![t] = "idle"]
    /\ call' = [call EXCEPT ![t] = NoCall]
    /\ hist' = Append(hist, [op |-> "SetDebugGlobal", l |-> TheLog, v |-> call[t].v])
    /\ UNCHANGED <<nodes, lfields, stackField, m, buf, mapPool, bufPool, mu, woff, sink,
                   writes, clock, ncalls>>

\* a leveled call up to its call of print: time.Now() is read
LevelBegin(t, ctx, level, msg) ==
    /\ call' = [call EXCEPT ![t] = [cd |-> ctx, fields |-> <<>>, msg |-> msg,
                                    now |-> clock, sub |-> FALSE, level |-> level]]
    /\ clock' = clock + 1
    /\ pc' = [pc EXCEPT ![t] = "print1"]
    /\ UNCHANGED <<nodes, lfields, stackField, m, buf, mapPool, bufPool, mu, woff, sink,
                   writes, ncalls, debug, hist>>

\* (*Log).Debug(ctx, msg) of this revision, up to its call of print: the
\* override stored in ctx when there is one, else the flag as it is loaded;
\* the call returns at once when that is false
Debug1(t, ctx, msg) ==
    /\ Alive
    /\ pc[t] = "idle"
    /\ ctx \in 0..Len(nodes)
    /\ LogStarted < MaxRunCalls
    /\ LET n == ctxValue(nodes, ctx)
           ok == n # 0
       IN IF (~ok /\ ~debug) \/ (ok /\ ~nodes[n].debug)
          THEN /\ hist' = Append(hist, [op |-> "Debug", l |-> TheLog, ctx |-> ctx])
               /\ UNCHANGED <<nodes, lfields, stackField, pc, call, m, buf, mapPool,
                              bufPool, mu, woff, sink, writes, clock, ncalls, debug>>
          ELSE LevelBegin(t, ctx, "debug", msg)

\* (*Log).Info(ctx, msg) of this revision, up to its call of print
Info1(t, ctx, msg) ==
    /\ Alive
    /\ pc[t] = "idle"
    /\ ctx \in 0..Len(nodes)
    /\ LogStarted < MaxRunCalls
    /\ LevelBegin(t, ctx, "info", msg)

\* (*Log).Error(ctx, msg) of this revision, up to its call of print
Error1(t, ctx, msg) ==
    /\ Alive
    /\ pc[t] = "idle"
    /\ ctx \in 0..Len(nodes)
    /\ LogStarted < MaxRunCalls
    /\ LevelBegin(t, ctx, "error", msg)

\* (*Log).Fatal(ctx, msg) of this revision, up to its call of print
Fatal1(t, ctx, msg) ==
    /\ Alive
    /\ pc[t] = "idle"
    /\ ctx \in 0..Len(nodes)
    /\ LogStarted < MaxRunCalls
    /\ LevelBegin(t, ctx, "fatal", msg)

\* logFields of print: the fields of ctx with every error as its message,
\* then msg, the time as text and the level
logFields(ns, ctx, level, now, msg) ==
    Put(Put(Put(copyFields(ctxFields(ns, ctx)), "msg", Str(msg)),
            "time", FormatRFC3339Nano(UTC(Now(now)))),
        "level", Str(level))

\* fmt.Sprintf("%v:%v", file, line) of runtime.Caller(2), the caller of the
\* leveled call
CallerFile == Str("file:line")

\* the line Encode writes for the struct encodeError: its fields in the
\* order they are declared
encodeErrorLine(rec, err, msg) ==
    [struct |-> "encodeError",
     fields |-> << <<"time", jsonOf(rec["time"])>>,
                   <<"file", jsonOf(CallerFile)>>,
                   <<"error", jsonOf(Str(err))>>,
                   <<"msg", jsonOf(Str(MsgEncodeError))>>,
                   <<"orig-msg", jsonOf(Str(msg))>> >>]

\* print up to its call of l.output.Write: the record, bufPool.Get() and
\* buf.Reset(), Encode and, when that fails, the substitute record (a struct
\* of strings, whose Encode does not fail)
Print1(t) ==
    /\ Alive
    /\ pc[t] = "print1"
    /\ \E g \in 0..Len(bufPool) :
          LET c == call[t]
              rec == logFields(nodes, c.cd, c.level, c.now, c.msg)
              e == Encode(rec)
              line == IF e.ok THEN e.line ELSE encodeErrorLine(rec, e.err, c.msg)
          IN /\ bufPool' = IF g = 0 THEN bufPool ELSE Without(bufPool, g)
             /\ buf' = [buf EXCEPT ![t] = <<line>>]
             /\ m' = [m EXCEPT ![t] = rec]
             /\ call' = [call EXCEPT ![t].sub = ~e.ok]
             /\ writes' = Append(writes, [id |-> <<t, ncalls[t] + 1>>,
                                          call |-> [c EXCEPT !.sub = ~e.ok],
                                          m |-> rec, data |-> <<line>>, err |-> FALSE])
    /\ woff' = [woff EXCEPT ![t] = 0]
    /\ pc' = [pc EXCEPT ![t] = "write1"]
    /\ UNCHANGED <<nodes, lfields, stackField, mapPool, mu, sink, clock, ncalls, debug,
                   hist>>

\* the output takes the next piece of buf.Bytes(); no mutex is held, and
\* the buffer keeps its bytes
OutputTake1(t) ==
    /\ Alive
    /\ pc[t] = "write1"
    /\ woff[t] < NumPieces(buf[t])
    /\ sink' = Append(sink, Piece(buf[t], <<t, ncalls[t] + 1>>, woff[t] + 1))
    /\ woff' = [woff EXCEPT ![t] = woff[t] + 1]
    /\ pc' = [pc EXCEPT ![t] =
                IF woff[t] + 1 = NumPieces(buf[t]) THEN "return1" ELSE "write1"]
    /\ UNCHANGED <<nodes, lfields, stackField, call, m, buf, mapPool, bufPool, mu, writes,
                   clock, ncalls, debug, hist>>

\* the output's Write returns an error, which print drops
OutputError1(t) ==
    /\ Alive
    /\ pc[t] = "write1"
    /\ pc' = [pc EXCEPT ![t] = "return1"]
    /\ writes' = [i \in DOMAIN writes |->
                    IF writes[i].id = <<t, ncalls[t] + 1>>
                    THEN [writes[i] EXCEPT !.err = TRUE] ELSE writes[i]]
    /\ UNCHANGED <<nodes, lfields, stackField, call, m, buf, mapPool, bufPool, mu, woff,
                   sink, clock, ncalls, debug, hist>>

\* print returns: the deferred bufPool.Put(buf) gives the buffer back with
\* the line still in it; the leveled call returns, Fatal calls os.Exit(1)
Return1(t) ==
    /\ Alive
    /\ pc[t] = "return1"
    /\ bufPool' = Append(bufPool, buf[t])
    /\ buf' = [buf EXCEPT ![t] = <<>>]
    /\ m' = [m EXCEPT ![t] = EmptyMap]
    /\ ncalls' = [ncalls EXCEPT ![t] = ncalls[t] + 1]
    /\ pc' = [pc EXCEPT ![t] = IF call[t].level = "fatal" THEN "exit" ELSE "idle"]
    /\ hist' = Append(hist, [op |-> call[t].level, l |-> TheLog, ctx |-> call[t].cd])
    /\ call' = [call EXCEPT ![t] = NoCall]
    /\ UNCHANGED <<nodes, lfields, stackField, mapPool, mu, woff, sink, writes, clock,
                   debug>>

\* the fields AddFields is called with
LogFieldMaps == { Map1("foo", ErrPlain), Map1("chan", ChanV) }

\* New(): the flag is a fresh int32, zero
InitLog == InitWith({ EmptyMap }) /\ debug = FALSE /\ stackField = ""

NextLog ==
    \E t \in Threads :
        \/ \E ctx \in 0..MaxNodes, fields \in LogFieldMaps : AddFields(t, ctx, fields)
        \/ \E ctx \in 0..MaxNodes, v \in BOOLEAN : SetDebug(t, ctx, v)
        \/ \E v \in BOOLEAN : SetDebugGlobal(t, v)
        \/ StoreZero(t)
        \/ \E ctx \in 0..MaxNodes : Debug1(t, ctx, "hello")
        \/ \E ctx \in 0..MaxNodes : Info1(t, ctx, "bye")
        \/ Error1(t, 0, "bye")
        \/ Fatal1(t, 0, "bye")
        \/ Print1(t)
        \/ OutputTake1(t)
        \/ OutputError1(t)
        \/ Return1(t)

SpecLog == InitLog /\ [][NextLog]_vars

\* the calls of SetDebugGlobal that have returned, in order
GlobalSets == SelectSeq(hist, LAMBDA e : e.op = "SetDebugGlobal")

\* the step is a Debug call of t that returns at once, writing nothing
DebugSuppressed(t) ==
    /\ pc[t] = "idle" /\ pc'[t] = "idle"
    /\ Len(hist') = Len(hist) + 1
    /\ hist'[Len(hist')].op = "Debug"

\* the step is a Debug call of t that goes on to print
DebugProceeds(t) ==
    pc[t] = "idle" /\ pc'[t] = "print1" /\ call'[t].level = "debug"

(***************************************************************************)
(* C14: once a call SetDebugGlobal(v) has returned and no other is in      *)
(* progress, a Debug call on a context without a scope-level override      *)
(* writes a record when the v of the last such call is true and writes     *)
(* nothing when it is false: it goes on to print exactly when that v is    *)
(* true, and a call that goes on to print hands its record to the output.  *)
(***************************************************************************)
C14_GlobalFlag ==
    [][\A t \in Threads :
          /\ (/\ GlobalSets # <<>>
              /\ \A u \in Threads : pc[u] # "store0"
              /\ DebugSuppressed(t)
              /\ Overrides(hist'[Len(hist')].ctx) = <<>>)
             => ~GlobalSets[Len(GlobalSets)].v
          /\ (/\ GlobalSets # <<>>
              /\ \A u \in Threads : pc[u] # "store0"
              /\ DebugProceeds(t)
              /\ Overrides(call'[t].cd) = <<>>)
             => GlobalSets[Len(GlobalSets)].v
          /\ (pc[t] = "print1" /\ pc'[t] = "write1")
             => /\ Len(writes') = Len(writes) + 1
                /\ writes'[Len(writes')].m["level"] = Str(call[t].level)]_vars

(***************************************************************************)
(* The revision with Hidden and FieldFromContext (part_005), whose Print   *)
(* hands the chain to the printer of part_001.                             *)
(***************************************************************************)
\* the body of the loop of (*printer).print, for one field
handleField001(rm, f) ==
    IF Has(rm, f.key) THEN rm
    ELSE IF f.key = "error" THEN
        LET ok == f.val.kind = "error"
            m1 == IF ok THEN Put(rm, "error", Str(f.val.msg)) ELSE rm
            i  == IF ok THEN ErrorsAs(f.val) ELSE 0
        IN IF i # 0 THEN Put(m1, "error-stack", stack(f.val.layers[i].pcs))
           ELSE m1
    ELSE IF f.key = "time" THEN
        IF f.val.kind = "time" THEN Put(rm, "time", UTC(f.val)) ELSE rm
    ELSE Put(rm, f.key, f.val)

RECURSIVE handleFields001(_, _)
handleFields001(rm, fs) ==
    IF fs = <<>> THEN rm
    ELSE handleFields001(handleField001(rm, Head(fs)), Tail(fs))

\* for d := cd; d != nil; d = d.prev { for _, f := range d.fields { ... } }
RECURSIVE walk001(_, _, _)
walk001(rm, ns, d) ==
    IF d = 0 THEN rm
    ELSE walk001(handleFields001(rm, ns[d].fields), ns, ns[d].prev)

\* the map of (*printer).print before it is encoded, built in the map rm
\* the pool handed out
resolve001(rm, ns, cd, msg, c) ==
    LET m1 == walk001(rm, ns, cd)
        m2 == Put(m1, "msg", Str(msg))
    IN IF Has(m2, "time") THEN m2 ELSE Put(m2, "time", UTC(Now(c)))

\* encErr of (*printer).print: the time as the map holds it
encErr001(rm, err) ==
    [k \in {"time", "error", "msg", "orig-msg"} |->
        IF k = "time" THEN rm["time"]
        ELSE IF k = "error" THEN Str(err)
        ELSE IF k = "msg" THEN Str(MsgEncodeError)
        ELSE rm["msg"]]

\* the Print calls of Spec005, and its calls that only return a value
Max005Calls == 2
Max005Hist == 2

\* (*Log).Print of part_005 up to the loop of the (*printer).print it calls:
\* a nil logger returns at once; else the ctxdata of the call is made and
\* print takes a buffer, then a map, from the pools
Print005(t, l, ctx, msg, fields, max) ==
    /\ Alive
    /\ pc[t] = "idle"
    /\ ctx \in 0..Len(nodes)
    /\ IF l = NilLog
       THEN /\ Len(hist) < Max005Hist
            /\ hist' = Append(hist, [op |-> "Print", l |-> l, ctx |-> ctx])
            /\ UNCHANGED <<pc, call, m, buf, mapPool, bufPool>>
       ELSE /\ Started < max
            /\ call' = [call EXCEPT ![t] = [cd |-> ctx, fields |-> fields, msg |-> msg,
                                            now |-> 0, sub |-> FALSE, l |-> l]]
            /\ \E g \in 0..Len(bufPool) :
                  /\ buf' = [buf EXCEPT ![t] = IF g = 0 THEN <<>> ELSE bufPool[g]]
                  /\ bufPool' = IF g = 0 THEN bufPool ELSE Without(bufPool, g)
            /\ \E g \in 0..Len(mapPool) :
                  /\ m' = [m EXCEPT ![t] = IF g = 0 THEN EmptyMap ELSE mapPool[g]]
                  /\ mapPool' = IF g = 0 THEN mapPool ELSE Without(mapPool, g)
            /\ pc' = [pc EXCEPT ![t] = "resolve001"]
            /\ hist' = hist
    /\ UNCHANGED <<nodes, lfields, stackField, mu, woff, sink, writes, clock, ncalls,
                   debug>>

\* the loop of (*printer).print over the chain of the call's ctxdata, then
\* msg and the time; the clock moves when time.Now() is read, which is when
\* no field has set the time
Resolve001(t) ==
    /\ Alive
    /\ pc[t] = "resolve001"
    /\ LET c == call[t]
           ns == nodes \o newCtxData(nodes, c.cd, LogFields(c.l), c.fields)
           read == ~Has(walk001(m[t], ns, Len(ns)), "time")
       IN /\ m' = [m EXCEPT ![t] = resolve001(m[t], ns, Len(ns), c.msg, clock)]
          /\ clock' = IF read THEN clock + 1 ELSE clock
          /\ call' = [call EXCEPT ![t].now = IF read THEN clock ELSE 0]
    /\ pc' = [pc EXCEPT ![t] = "encode001"]
    /\ UNCHANGED <<nodes, lfields, stackField, buf, mapPool, bufPool, mu, woff, sink,
                   writes, ncalls, debug, hist>>

\* Encode(m) and, when that fails, buf.Reset() and the substitute record;
\* a failing substitute panics, and the deferred functions run on the way
\* out
Encode001(t) ==
    /\ Alive
    /\ pc[t] = "encode001"
    /\ LET e == Encode(m[t])
           s == Encode(encErr001(m[t], e.err))
       IN IF e.ok
          THEN /\ buf' = [buf EXCEPT ![t] = Append(buf[t], e.line)]
               /\ pc' = [pc EXCEPT ![t] = "lock001"]
               /\ UNCHANGED <<m, mapPool, bufPool, call>>
          ELSE IF s.ok
          THEN /\ buf' = [buf EXCEPT ![t] = <<s.line>>]
               /\ pc' = [pc EXCEPT ![t] = "lock001"]
               /\ call' = [call EXCEPT ![t].sub = TRUE]
               /\ UNCHANGED <<m, mapPool, bufPool>>
          ELSE /\ PutBack(t)
               /\ pc' = [pc EXCEPT ![t] = "panic"]
               /\ UNCHANGED call
    /\ UNCHANGED <<nodes, lfields, stackField, mu, woff, sink, writes, clock, ncalls,
                   debug, hist>>

\* p.mu.Lock() and the call p.w.Write(buf.Bytes()); mu is the mutex of the
\* printer of the logger whose calls run
Lock001(t) ==
    /\ Alive
    /\ pc[t] = "lock001"
    /\ mu = 0
    /\ mu' = t
    /\ woff' = [woff EXCEPT ![t] = 0]
    /\ writes' = Append(writes, [id |-> <<t, ncalls[t] + 1>>, call |-> call[t],
                                 m |-> m[t], data |-> buf[t], err |-> FALSE])
    /\ pc' = [pc EXCEPT ![t] = "write001"]
    /\ UNCHANGED <<nodes, lfields, stackField, call, m, buf, mapPool, bufPool, sink,
                   clock, ncalls, debug, hist>>

\* the writer takes the next piece of buf.Bytes(); the buffer keeps its
\* bytes
Write001Take(t) ==
    /\ Alive
    /\ pc[t] = "write001"
    /\ woff[t] < NumPieces(buf[t])
    /\ sink' = Append(sink, Piece(buf[t], <<t, ncalls[t] + 1>>, woff[t] + 1))
    /\ woff' = [woff EXCEPT ![t] = woff[t] + 1]
    /\ pc' = [pc EXCEPT ![t] =
                IF woff[t] + 1 = NumPieces(buf[t]) THEN "unlock" ELSE "write001"]
    /\ UNCHANGED <<nodes, lfields, stackField, call, m, buf, mapPool, bufPool, mu, writes,
                   clock, ncalls, debug, hist>>

\* the writer's Write returns an error, which print drops
Write001Error(t) ==
    /\ Alive
    /\ pc[t] = "write001"
    /\ pc' = [pc EXCEPT ![t] = "unlock"]
    /\ writes' = [i \in DOMAIN writes |->
                    IF writes[i].id = <<t, ncalls[t] + 1>>
                    THEN [writes[i] EXCEPT !.err = TRUE] ELSE writes[i]]
    /\ UNCHANGED <<nodes, lfields, stackField, call, m, buf, mapPool, bufPool, mu, woff,
                   sink, clock, ncalls, debug, hist>>

\* the steps of (*printer).print after the call of Print; p.mu.Unlock() and
\* the deferred functions are those of Unlock and Return
Print001Steps(t) ==
    \/ Resolve001(t)
    \/ Encode001(t)
    \/ Lock001(t)
    \/ Write001Take(t)
    \/ Write001Error(t)
    \/ Unlock(t)
    \/ Return(t)

\* the fields of ctx's chain, leaf first, as FieldFromContext ranges over them
RECURSIVE ChainFields(_, _)
ChainFields(ns, ctx) ==
    IF ctx = 0 THEN <<>> ELSE ns[ctx].fields \o ChainFields(ns, ns[ctx].prev)

\* f.value.(*T) succeeds
IsPtrTo(v, T) == v.kind = "ptr" /\ v.type = T

\* FieldFromContext[T](ctx): the value of the first field of the chain that
\* is a *T; a panic when there is none
FieldFromContext(t, ctx, T) ==
    /\ Alive
    /\ pc[t] = "idle"
    /\ ctx \in 0..Len(nodes)
    /\ Len(hist) < Max005Hist
    /\ LET found == SelectSeq(ChainFields(nodes, ctx), LAMBDA f : IsPtrTo(f.val, T))
       IN IF found = <<>>
          THEN /\ pc' = [pc EXCEPT ![t] = "panic"]
               /\ hist' = hist
          ELSE /\ pc' = pc
               /\ hist' = Append(hist, [op |-> "FieldFromContext", ctx |-> ctx,
                                        T |-> T, ret |-> found[1].val])
    /\ UNCHANGED <<nodes, lfields, stackField, call, m, buf, mapPool, bufPool, mu, woff, sink,
                   writes, clock, ncalls, debug>>

\* the inputs of Spec005
User1 == Ptr("User", 1)
User2 == Ptr("User", 2)
Span1 == Ptr("Span", 1)
Types005 == {"User", "Span"}
Hidden005Lists ==
    { <<Hidden(User1)>>,
      <<FooBaz, Hidden(User2), Hidden(User1)>>,
      <<Hidden(Span1), Hidden(Str("secret"))>>,
      <<Time(TimeV(10000, 5, 7, 2))>> }
Print005Lists == { <<>>, <<Error(ErrStack)>>, <<Value("chan", ChanV)>> }

Init005 == InitWith({ <<FooBar>> }) /\ debug = FALSE /\ stackField = ""

Next005 ==
    \E t \in Threads :
        \/ \E ctx \in 0..MaxNodes, fields \in Hidden005Lists :
              WithMethod(t, TheLog, ctx, fields)
        \/ /\ t = 1
           /\ \E l \in {NilLog, TheLog}, ctx \in 0..MaxNodes, fields \in Print005Lists :
                 Print005(t, l, ctx, "hello", fields, Max005Calls)
        \/ /\ t # 1
           /\ Print005(t, TheLog, 0, "bye", <<>>, Max005Calls)
        \/ \E ctx \in 0..MaxNodes, T \in Types005 : FieldFromContext(t, ctx, T)
        \/ Print001Steps(t)

Spec005 == Init005 /\ [][Next005]_vars

\* the step returns from FieldFromContext[T] on a context whose own node
\* holds a *T attached with Hidden before any other *T
HiddenFound ==
    /\ LevelReturn("FieldFromContext")
    /\ LET e == hist'[Len(hist')]
           own == IF e.ctx = 0 THEN <<>>
                  ELSE SelectSeq(nodes[e.ctx].fields, LAMBDA f : IsPtrTo(f.val, e.T))
       IN own # <<>> /\ own[1].key = ""

\* FieldFromContext returned the hidden value of the context's own node
HiddenReturned ==
    LET e == hist'[Len(hist')]
    IN e.ret = SelectSeq(nodes[e.ctx].fields, LAMBDA f : IsPtrTo(f.val, e.T))[1].val

(***************************************************************************)
(* C16: FieldFromContext of the type of a pointer attached with Hidden     *)
(* returns that pointer from the derived context, and no record printed    *)
(* has an entry under the empty key, in its map or in its line.            *)
(***************************************************************************)
C16_HiddenNotPrinted ==
    /\ [](\A i \in DOMAIN writes :
             /\ "" \notin DOMAIN writes[i].m
             /\ "" \notin DOMAIN writes[i].data[1])
    /\ [][HiddenFound => HiddenReturned]_vars

(***************************************************************************)
(* The mutex, the pools and the exits of print.                            *)
(***************************************************************************)
\* the line the thread's buffer must hold once print is past its encoding:
\* the encoding of its map, or of the substitute record when that fails
FinalLine(t) ==
    IF Encode(m[t]).ok THEN Encode(m[t]).line
    ELSE Encode(encErr(m[t], Encode(m[t]).err, call[t].msg)).line

(***************************************************************************)
(* C21: a call that holds the mutex is at its sink write or about to       *)
(* unlock, and the one line it hands to the sink, the encoding of its      *)
(* resolved map or of the substitute record, was in its buffer when it     *)
(* took the mutex; a call that resolves, encodes, waits for the mutex or   *)
(* has unlocked does not hold it, and the mutex is free when no call is at *)
(* the write or the unlock.                                                *)
(***************************************************************************)
C21_MutexAroundWriteOnly ==
    /\ \A t \in Threads :
          /\ mu = t => /\ pc[t] \in {"write", "unlock"}
                       /\ \E i \in DOMAIN writes :
                             /\ writes[i].id = <<t, ncalls[t] + 1>>
                             /\ writes[i].data = <<FinalLine(t)>>
                       /\ pc[t] = "write" => buf[t] = <<FinalLine(t)>>
                       /\ call[t].sub = ~Encode(m[t]).ok
          /\ pc[t] \in {"write", "unlock"} => mu = t
    /\ mu \in Threads \cup {0}

\* a call holds the mutex for the write of a substitute record while
\* another call is encoding and has not asked for the mutex
C21_Witness ==
    \E t, u \in Threads :
        /\ mu = t /\ pc[t] = "write" /\ call[t].sub
        /\ pc[u] = "encode"

\* the calls that have left print, by return or by panic
Exits == SumTo(ncalls, NumThreads) + Cardinality({t \in Threads : pc[t] = "panic"})

\* the keys the fields of a call's scopes can put into its map
OwnKeys(c) ==
    UNION {KeysOf(Scopes(c)[i]) : i \in DOMAIN Scopes(c)} \cup {"msg", "time", "error_stack"}

(***************************************************************************)
(* C22: every map and buffer in the pools is empty, so it is empty when    *)
(* it is taken; a call holds an empty map before it resolves and an empty  *)
(* buffer before it encodes, its own line until the sink's Write returns,  *)
(* and afterwards nothing when the Write took the line and what the sink   *)
(* left of the line when the Write failed; a thread                        *)
(* outside print (returned or panicked) holds neither, each pool holds no  *)
(* more objects than calls have left print, and the record of a Write has  *)
(* no key but those of the fields of its own call.                         *)
(***************************************************************************)
C22_PoolDiscipline ==
    /\ \A i \in DOMAIN mapPool : mapPool[i] = EmptyMap
    /\ \A i \in DOMAIN bufPool : bufPool[i] = <<>>
    /\ Len(mapPool) <= Exits
    /\ Len(bufPool) <= Exits
    /\ \A t \in Threads :
          /\ pc[t] \in {"idle", "panic"} => m[t] = EmptyMap /\ buf[t] = <<>>
          /\ pc[t] = "resolve" => m[t] = EmptyMap /\ buf[t] = <<>>
          /\ pc[t] = "encode" => buf[t] = <<>>
          /\ pc[t] \in {"lock", "write"} => buf[t] = <<FinalLine(t)>>
          /\ pc[t] \in {"unlock", "return"}
                => \E i \in DOMAIN writes :
                      /\ writes[i].id = <<t, ncalls[t] + 1>>
                      /\ buf[t] = IF writes[i].err
                                  THEN Rest(<<FinalLine(t)>>, woff[t]) ELSE <<>>
          /\ pc[t] \in {"lock", "write", "unlock", "return"}
                => DOMAIN m[t] \subseteq OwnKeys(call[t])
    /\ \A i \in DOMAIN writes :
          /\ DOMAIN writes[i].m \subseteq OwnKeys(writes[i].call)
          /\ Len(writes[i].data) = 1

\* a call whose record had the key chan has returned, the map and the
\* buffer it put back have been taken again, and the call that holds them
\* has encoded a record without that key
C22_Witness ==
    /\ Exits >= 1
    /\ mapPool = <<>>
    /\ bufPool = <<>>
    /\ \E i \in DOMAIN writes :
          /\ "chan" \in DOMAIN writes[i].m
          /\ PastWrite(writes[i].id[1], writes[i].id[2])
          /\ ncalls[writes[i].id[1]] >= writes[i].id[2]
    /\ \E t \in Threads :
          /\ pc[t] = "lock"
          /\ "chan" \notin DOMAIN m[t]
    /\ Cardinality({t \in Threads : pc[t] # "idle"}) = 1

\* the scheduler runs every thread that can take a step, sync.Mutex hands
\* the mutex to a waiting call, and the sink returns from every Write
SpecConcFair ==
    /\ SpecConc
    /\ \A t \in Threads :
          /\ WF_vars(Resolve(t))
          /\ WF_vars(EncodeStep(t))
          /\ SF_vars(Lock(t))
          /\ WF_vars(SinkTake(t) \/ SinkError(t))
          /\ WF_vars(Unlock(t))
          /\ WF_vars(Return(t))

\* the Writes the sink has failed
Failed == {i \in DOMAIN writes : writes[i].err}

(***************************************************************************)
(* C23: a Write the sink fails is not made again (its call has that one    *)
(* Write and the sink gets no further piece of it), no thread panics, the  *)
(* call whose Write failed goes on to unlock and to return, and a call     *)
(* that waits for the mutex always reaches its own write step.             *)
(***************************************************************************)
C23_WriteErrorDropped ==
    /\ [](/\ \A t \in Threads : pc[t] # "panic"
          /\ \A i \in Failed : Cardinality(WritesOf(writes[i].id[1], writes[i].id[2])) = 1)
    /\ [][\A i \in Failed :
             {x \in DOMAIN sink' : sink'[x].id = writes[i].id}
                = {x \in DOMAIN sink : sink[x].id = writes[i].id}]_vars
    /\ \A t \in Threads :
          /\ (pc[t] = "write") ~> (pc[t] = "idle" /\ mu # t)
          /\ (pc[t] = "lock") ~> (pc[t] = "write")

\* the sink failed the Write of a call that has returned, and a later call
\* of another thread has made its own Write with the mutex free again
C23_Witness ==
    \E i, j \in DOMAIN writes :
        /\ i < j
        /\ writes[i].err
        /\ ncalls[writes[i].id[1]] >= writes[i].id[2]
        /\ writes[j].id[1] # writes[i].id[1]
        /\ ~writes[j].err
        /\ ncalls[writes[j].id[1]] >= writes[j].id[2]
        /\ mu = 0

\* the inputs of SpecAbort: fields whose time or error is of the wrong
\* type, values the encoder rejects, a time it rejects
AbortFieldLists ==
    { <<>>,
      <<Value("error", Str("raw")), Value("time", Str("noon"))>>,
      <<Value("chan", ChanV)>>,
      <<Time(T10000)>>,
      <<Time(T10000), Value("chan", ChanV), Error(NilV)>> }
AbortScopeLists == { <<Value("time", Str("noon"))>>, <<Value("chan", ChanV)>> }
AbortBaseLists == { <<>>, <<Value("time", ChanV)>> }
MaxAbortCalls == 2

InitAbort == InitWith(AbortBaseLists) /\ debug = FALSE /\ stackField = ""

NextAbort ==
    \/ \E ctx \in 0..MaxNodes, fields \in AbortScopeLists : With(1, ctx, fields)
    \/ \E ctx \in 0..MaxNodes, fields \in AbortFieldLists :
          PrintBegin(1, ctx, "hello", fields, MaxAbortCalls)
    \/ Resolve(1)
    \/ EncodeStep(1)
    \/ Lock(1)
    \/ SinkTake(1)
    \/ SinkError(1)
    \/ Unlock(1)
    \/ Return(1)

SpecAbort == InitAbort /\ [][NextAbort]_vars

(***************************************************************************)
(* C24: no Print call panics: not when the encoding of its record fails,   *)
(* not at the type assertion on the time of its map, which is a time.Time  *)
(* whenever the encoding is reached, and not when the sink fails its       *)
(* Write; a record that does not encode is replaced by the substitute      *)
(* record, which encodes.                                                  *)
(***************************************************************************)
C24_NoAbort ==
    /\ \A t \in Threads :
          /\ pc[t] # "panic"
          /\ pc[t] \in {"encode", "lock", "write", "unlock", "return"} => HasTime(m[t])
          /\ pc[t] = "encode" /\ ~Encode(m[t]).ok
                => Encode(encErr(m[t], Encode(m[t]).err, call[t].msg)).ok
    /\ \A i \in DOMAIN writes :
          EncodeFails(writes[i]) => writes[i].call.sub

\* calls have returned whose field of key time held a string, whose record
\* did not encode for a time out of range together with a channel, and
\* whose Write the sink failed
C24_Witness ==
    /\ pc[1] = "idle"
    /\ \E i \in DOMAIN writes :
          /\ \E j \in DOMAIN writes[i].call.fields :
                writes[i].call.fields[j] = Value("time", Str("noon"))
          /\ ~writes[i].call.sub
    /\ \E i \in DOMAIN writes :
          /\ writes[i].call.sub
          /\ writes[i].m["time"].year = 10000
          /\ "chan" \in DOMAIN writes[i].m
          /\ writes[i].err

(***************************************************************************)
(* C25: a Print call whose record does not encode writes the substitute    *)
(* record and does not panic, whatever fields were attached: the encoding  *)
(* step of print leaves no thread panicked.                                *)
(***************************************************************************)
C25_SubstituteEncodes ==
    [][\A t \in Threads : pc[t] = "encode001" => pc'[t] # "panic"]_vars

(***************************************************************************)
(* Several loggers of the revision of part_005 and one context chain.      *)
(***************************************************************************)
MaxLogCalls == 2
LogScopeLists == { <<FooBaz>>, <<Value("chan", Str("c"))>> }
LogPrintLists == { <<>>, <<Value("svc", Str("site"))>> }

InitLoggers == InitWith({ <<FooBar>> }) /\ debug = FALSE /\ stackField = ""

\* With through the package-level function (the process-wide logger) or a
\* logger's method, Print on one of the two loggers made with base fields
NextLoggers ==
    \/ \E l \in {PkgLog, TheLog, OtherLog}, ctx \in 0..MaxNodes, fields \in LogScopeLists :
          WithMethod(1, l, ctx, fields)
    \/ \E l \in {TheLog, OtherLog}, ctx \in 0..MaxNodes, fields \in LogPrintLists :
          Print005(1, l, ctx, "hello", fields, MaxLogCalls)
    \/ Print001Steps(1)

SpecLoggers == InitLoggers /\ [][NextLoggers]_vars

\* the keys attached by With along the chain of a call (the root node of a
\* chain holds the base fields newCtxData put there) and at the call site
AttachedKeys(c) ==
    KeysOf(c.fields) \cup
    UNION {KeysOf(nodes[n].fields) : n \in {x \in DOMAIN nodes :
              /\ nodes[x].prev # 0
              /\ \E i \in DOMAIN ChainOf(c.cd) : ChainOf(c.cd)[i] = x}}

(***************************************************************************)
(* C26: the record a logger L prints has, for every key of L's base fields *)
(* that is attached neither in the chain nor at the call site, L's value,  *)
(* and it has no base field of another logger: a key of another logger's   *)
(* base fields that is neither attached nor among L's base fields is       *)
(* absent.                                                                 *)
(***************************************************************************)
C26_BaseFieldsOfPrinter ==
    \A i \in DOMAIN writes :
        LET c == writes[i].call
            own == LogFields(c.l)
        IN /\ \A k \in KeysOf(own) \ (AttachedKeys(c) \cup Reserved) :
                 /\ k \in DOMAIN writes[i].m
                 /\ writes[i].m[k] = FirstOf(own, k)
           /\ \A a \in {PkgLog, TheLog, OtherLog} \ {c.l} :
                 \A k \in KeysOf(LogFields(a)) \ (AttachedKeys(c) \cup KeysOf(own) \cup Reserved) :
                    k \notin DOMAIN writes[i].m

====
